---------------------------- MODULE Spec2Model ----------------------------
(***************************************************************************)
(* Model of the sandbox execution orchestrator of code-sandbox-mcp.        *)
(*                                                                         *)
(* One behaviour is one tool request: either run_code (RunCodeSandbox, a   *)
(* coordinator that polls a one-slot channel while the goroutine running   *)
(* runInDocker provisions and runs the container) or run_project           *)
(* (RunProjectSandbox calling runProjectInDocker synchronously).           *)
(* The Docker backend, the file system and the notification transport are  *)
(* the environment: each of their operations succeeds or fails             *)
(* nondeterministically.                                                   *)
(***************************************************************************)
EXTENDS Integers, Sequences, FiniteSets, TLC

VARIABLES
    request,          \* the arguments of the tool call (never modified)
    pc,               \* position of the handler (RunCodeSandbox / RunProjectSandbox)
    wpc,              \* position of the goroutine running runInDocker
    resultCh,         \* the buffered channel resultCh (capacity 1)
    ret,              \* what runInDocker returned, before it is put on resultCh
    progress,         \* the local variable progress of RunCodeSandbox
    polls,            \* number of notifications the poll loop has emitted
    sent,             \* notifications handed to SendNotificationToClient, in order
    sendFailures,     \* how many of them the transport failed to deliver
    reply,            \* the value the handler returned to the caller
    crashed,          \* the process died of an unrecovered panic
    container,        \* state of the sandbox container in the backend
    calls,            \* backend operations invoked so far, in order
    waitResult,       \* what ContainerWait delivered
    logs,             \* the text read from ContainerLogs
    tmpDir,           \* the docker-sandbox-* directory of runInDocker
    artifactsDir,     \* the project-artifacts-* directory of runProjectInDocker
    outputDir,        \* the collector's destination directory on disk: outputPath
                      \* (run_code) or <projectDir>/artifacts (run_project)
    artifactFiles,    \* files the container has written below /artifacts
    artifactsRegistry,\* resources.artifactsRegistry: key -> durable path
    persistentStore,  \* what is on disk below persistentArtifactsDir: path -> content
    outputFiles,      \* the files of the destination directory: name -> content
    lastOp,           \* the last call of the resources package and what it returned
    harvested,        \* for each registered key, the bytes read at its last harvest
    collectors,       \* the goroutines inside CollectArtifactsFromDir at the same time
    deps,             \* dependency resolution and command of a request
    userArtifactsDir, \* os.Getenv("ARTIFACTS_DIR") of the process ("": not set)
    binds,            \* HostConfig.Binds of the container that was created
    userFiles         \* the files of the directory userArtifactsDir names, when it
                      \* is not the destination directory: name -> content

\* The environment and the mounts of the sandbox.
sandboxVars == <<userArtifactsDir, binds, userFiles>>

vars == <<request, pc, wpc, resultCh, ret, progress, polls, sent, sendFailures,
          reply, crashed, container, calls, waitResult, logs, tmpDir,
          artifactsDir, outputDir, artifactFiles, artifactsRegistry,
          persistentStore, outputFiles, lastOp, harvested, collectors, deps,
          userArtifactsDir, binds, userFiles>>

-----------------------------------------------------------------------------
(* Bounds of the model. *)

\* The poll loop is cut off after this many emitted notifications.
MaxPolls == 26

\* At most this many notifications fail to be delivered in one request.
MaxSendFailures == 1

\* At most this many file operations of the resources package fail in one
\* behaviour.
MaxFaults == 1

\* A behaviour of the resources package on its own makes at most this many
\* calls.
MaxCalls == 3

\* Under fair scheduling the poll loop is followed for this many emitted
\* notifications.
MaxFairPolls == 4

-----------------------------------------------------------------------------
(* Values. *)

\* The progress token that is the empty string: the one value for which the
\* guard progressToken != "" of the handlers is false.
NoToken == ""
NotAString == "<not a string>"
NoReply == [kind |-> "none"]
NoResult == [kind |-> "none"]
NoLogs == "<no logs>"
NoErr == "nil"
NoOp == [op |-> "none", n |-> 0, faulted |-> 0]
NoDeps == [pc |-> "none"]
ContainerID == "c1"

\* The languages of the runtime profile table (enum of RunCodeArguments).
AllLanguages == {"python", "go", "nodejs"}

\* An id that is a string but not in the table.
UnknownLanguage == "ruby"

\* languages.SupportedLanguages[language].Image: the zero value "" for an
\* id that is not in the table.
Image(language) == IF language \in AllLanguages THEN "image-" \o language ELSE ""

\* The final value of the progress scale.
Terminal == 100


-----------------------------------------------------------------------------
(* Requests. *)

\* Arguments of a run_code call: language, code, outputPath, progress token.
RunCodeRequests ==
    [tool : {"run_code"}, token : {NoToken, "tok"},
     language : AllLanguages \cup {UnknownLanguage, NotAString},
     badArg : {"none", "code"}, outputPath : {"", "/out"}]

\* Arguments of a run_project call: language, entrypointCmd, projectDir, token.
\* badArg names the argument that is not a string ("missing": projectDir is a
\* string but no such directory exists).
RunProjectRequests ==
    [tool : {"run_project"}, token : {NoToken, "tok"},
     language : AllLanguages \cup {UnknownLanguage, NotAString},
     badArg : {"none", "entrypointCmd", "projectDir", "missing"},
     outputPath : {""}]

\* The state in which a handler is entered with one of the requests, in a
\* process whose ARTIFACTS_DIR is one of userDirs.
InitOf(requests, userDirs) ==
    /\ request \in requests
    /\ pc = "entry"
    /\ wpc = "idle"
    /\ resultCh = <<>>
    /\ ret = NoResult
    /\ progress = 0
    /\ polls = 0
    /\ sent = <<>>
    /\ sendFailures = 0
    /\ reply = NoReply
    /\ crashed = FALSE
    /\ container = "none"
    /\ calls = <<>>
    /\ waitResult = "none"
    /\ logs = NoLogs
    /\ tmpDir = "absent"
    /\ artifactsDir = "absent"
    /\ outputDir \in IF request.outputPath = "" THEN {"absent"} ELSE {"absent", "exists"}
    /\ artifactFiles = <<>>
    /\ artifactsRegistry = <<>>
    /\ persistentStore = <<>>
    /\ outputFiles = <<>>
    /\ lastOp = NoOp
    /\ harvested = <<>>
    /\ collectors = <<>>
    /\ deps = NoDeps
    /\ userArtifactsDir \in userDirs
    /\ binds = <<>>
    /\ userFiles = <<>>

\* A request of either tool; ARTIFACTS_DIR is not set.
Init == InitOf(RunCodeRequests \cup RunProjectRequests, {""})

-----------------------------------------------------------------------------
(* Notifications. *)

\* server.SendNotificationToClient returns an error or nil.
Deliveries == IF sendFailures < MaxSendFailures THEN {TRUE, FALSE} ELSE {TRUE}

\* A notifications/progress message; by records the place that sent it.
ProgressNote(p, by, ok) ==
    [method |-> "notifications/progress", progress |-> p, by |-> by, delivered |-> ok]

\* The notifications/error message of the poll loop.
ErrorNote ==
    [method |-> "notifications/error", progress |-> -1, by |-> "poll", delivered |-> TRUE]

Failed(ok) == IF ok THEN 0 ELSE 1

-----------------------------------------------------------------------------
(* Replies of the handlers. *)

\* mcp.NewToolResultError(msg)
ToolResultError(msg) ==
    [kind |-> "toolResult", isError |-> TRUE, msg |-> msg, logs |-> NoLogs,
     artifacts |-> <<>>, containerId |-> ""]

\* the handler's Go error: return nil, fmt.Errorf(msg)
HandlerError(msg) ==
    [kind |-> "error", isError |-> TRUE, msg |-> msg, logs |-> NoLogs,
     artifacts |-> <<>>, containerId |-> ""]

\* The CallToolResult with IsError false that reports the undelivered
\* initial notification.
CouldNotSendResult ==
    [kind |-> "toolResult", isError |-> FALSE, msg |-> "Could not send progress to client",
     logs |-> NoLogs, artifacts |-> <<>>, containerId |-> ""]

\* What RunCodeSandbox builds from the value it took from resultCh: the error
\* text alone when err is set, otherwise the logs and the artifact URIs.
RunCodeReply(result) ==
    IF result.err # NoErr
    THEN ToolResultError(result.err)
    ELSE [kind |-> "toolResult", isError |-> FALSE, msg |-> "", logs |-> result.logs,
          artifacts |-> result.artifacts, containerId |-> ""]

\* What RunProjectSandbox builds from the return values of runProjectInDocker.
RunProjectReply(result) ==
    IF result.err # NoErr
    THEN ToolResultError(result.err)
    ELSE [kind |-> "toolResult", isError |-> FALSE, msg |-> "", logs |-> NoLogs,
          artifacts |-> result.artifacts, containerId |-> result.containerId]

\* The return values of runInDocker / runProjectInDocker.
Result(id, l, a, e) ==
    [kind |-> "result", containerId |-> id, logs |-> l, artifacts |-> a, err |-> e]

-----------------------------------------------------------------------------
(* Package resources: strings and paths.                                    *)

\* strings.HasPrefix
HasPrefix(s, prefix) ==
    Len(s) >= Len(prefix) /\ SubSeq(s, 1, Len(prefix)) = prefix

\* strings.TrimPrefix
TrimPrefix(s, prefix) ==
    IF HasPrefix(s, prefix) THEN SubSeq(s, Len(prefix) + 1, Len(s)) ELSE s

\* The positions of the one-character string ch in s.
Positions(s, ch) == {i \in 1..Len(s) : SubSeq(s, i, i) = ch}

Highest(S) == CHOOSE m \in S : \A n \in S : n <= m
Lowest(S) == CHOOSE m \in S : \A n \in S : m <= n

\* parts := strings.Split(key, "/"): len(parts), parts[0], parts[len(parts)-1].
SplitLen(key) == Cardinality(Positions(key, "/")) + 1
SplitFirst(key) ==
    IF Positions(key, "/") = {} THEN key
    ELSE SubSeq(key, 1, Lowest(Positions(key, "/")) - 1)
SplitLast(key) ==
    IF Positions(key, "/") = {} THEN key
    ELSE SubSeq(key, Highest(Positions(key, "/")) + 1, Len(key))

\* filepath.Base of a path that does not end in a separator.
Base(path) == SplitLast(path)

\* filepath.Ext: the suffix from the last dot of the last element on.
Ext(path) ==
    LET name == Base(path)
    IN IF Positions(name, ".") = {} THEN ""
       ELSE SubSeq(name, Highest(Positions(name, ".")), Len(name))

UpperLetters == "ABCDEFGHIJKLMNOPQRSTUVWXYZ"
LowerLetters == "abcdefghijklmnopqrstuvwxyz"

\* strings.ToLower on ASCII text.
RECURSIVE ToLower(_)
ToLower(s) ==
    IF s = "" THEN ""
    ELSE LET c == SubSeq(s, 1, 1)
             at == Positions(UpperLetters, c)
             lower == IF at = {} THEN c
                      ELSE SubSeq(LowerLetters, Lowest(at), Lowest(at))
         IN lower \o ToLower(SubSeq(s, 2, Len(s)))

\* Lines 89-105.
guessMimeType(filename) ==
    LET ext == ToLower(Ext(filename))
    IN CASE ext \in {".png", ".jpg", ".jpeg", ".gif", ".svg", ".webp"} -> "image"
         [] ext \in {".pdf"} -> "pdf"
         [] ext \in {".txt", ".md", ".json", ".yaml", ".yml", ".csv", ".tsv"} -> "text"
         [] ext \in {".mp3", ".wav", ".ogg", ".flac"} -> "audio"
         [] ext \in {".mp4", ".webm", ".avi", ".mov"} -> "video"
         [] OTHER -> "binary"

\* artifacts://<containerID>/<fileName>
ArtifactURI(containerID, fileName) == "artifacts://" \o containerID \o "/" \o fileName

\* The registry key of RegisterArtifact.
RegistryKey(containerID, fileName) == containerID \o "/" \o fileName

\* filepath.Join(persistentArtifactsDir, containerID)
ContainerDir(containerID) == "persistent-code-sandbox-artifacts/" \o containerID

\* A durable path that leaves the container out.
PersistentPath_Shared(containerID, fileName) ==
    "persistent-code-sandbox-artifacts/" \o fileName

\* filepath.Join(persistentArtifactsDir, containerID, fileName)
PersistentPath(containerID, fileName) ==
    "persistent-code-sandbox-artifacts/" \o containerID \o "/" \o fileName

-----------------------------------------------------------------------------
(* Package resources: files. A directory listing is a sequence of entries;  *)
(* the durable store and the destination directory map a path or a name to  *)
(* the content of the file.                                                  *)

\* The content of a file that a failed os.WriteFile has truncated.
Truncated == ""

\* What the store holds for a directory.
DirMark == "<dir>"

RegularFile(name, data) == [name |-> name, isDir |-> FALSE, data |-> data]
Directory(name) == [name |-> name, isDir |-> TRUE, data |-> DirMark]

\* f with key k set to v, and f without key k.
Put(f, k, v) == [x \in (DOMAIN f) \cup {k} |-> IF x = k THEN v ELSE f[x]]
Drop(f, K) == [x \in (DOMAIN f) \ K |-> f[x]]

Range(seq) == {seq[i] : i \in DOMAIN seq}

\* A file operation of one call that fails; name is "" for the operations on
\* the directory as a whole.
Fault(op, name) == [op |-> op, name |-> name]

-----------------------------------------------------------------------------
(* Package resources: CollectArtifactsFromDir. The files the function can   *)
(* change are passed and returned as a record fs = [registry, store,        *)
(* outputDir, outputFiles]; faults is the set of file operations that fail  *)
(* during the call.                                                          *)

\* A registration that starts the map anew and keeps the new entry only.
RegisterArtifact_Replace(registry, containerID, name, path) ==
    Put(<<>>, RegistryKey(containerID, name), path)

\* Lines 32-35.
RegisterArtifact(registry, containerID, name, path) ==
    Put(registry, RegistryKey(containerID, name), path)

\* Lines 180-208: the copy to targetPath. os.MkdirAll and os.WriteFile may
\* fail, and a failed write may leave a truncated file; the failures are
\* printed and nothing else.
CopyToTarget(acc, entry, targetPath, faults) ==
    IF targetPath = "" THEN acc
    ELSE IF Fault("mkdirTarget", entry.name) \in faults THEN acc
    ELSE IF Fault("writeTargetOpen", entry.name) \in faults
         THEN [acc EXCEPT !.outputDir = "exists"]
    ELSE IF Fault("writeTargetShort", entry.name) \in faults
         THEN [acc EXCEPT !.outputDir = "exists",
                          !.outputFiles = Put(@, entry.name, Truncated)]
    ELSE [acc EXCEPT !.outputDir = "exists",
                     !.outputFiles = Put(@, entry.name, entry.data)]

\* A loop body that registers and returns a file whose durable write failed.
CollectFile_RegisterAnyway(acc, entry, containerID, targetPath, faults) ==
    LET persistentPath == PersistentPath(containerID, entry.name)
        written ==
            IF Fault("writeOpen", entry.name) \in faults THEN acc
            ELSE IF Fault("writeShort", entry.name) \in faults
                 THEN [acc EXCEPT !.store = Put(@, persistentPath, Truncated)]
            ELSE [acc EXCEPT !.store = Put(@, persistentPath, entry.data)]
        copied == CopyToTarget(written, entry, targetPath, faults)
    IN  IF entry.isDir THEN acc
        ELSE IF Fault("read", entry.name) \in faults THEN acc
        ELSE [copied EXCEPT
                !.registry = RegisterArtifact(@, containerID, entry.name, persistentPath),
                !.uris = Append(@, ArtifactURI(containerID, entry.name))]

\* A loop body that gives a file up when its copy to targetPath failed.
CollectFile_TargetFatal(acc, entry, containerID, targetPath, faults) ==
    LET persistentPath == PersistentPath(containerID, entry.name)
        stored == [acc EXCEPT !.store = Put(@, persistentPath, entry.data)]
        copied == CopyToTarget(stored, entry, targetPath, faults)
        targetFailed ==
            /\ targetPath # ""
            /\ \E op \in {"mkdirTarget", "writeTargetOpen", "writeTargetShort"} :
                   Fault(op, entry.name) \in faults
    IN  IF entry.isDir THEN acc
        ELSE IF Fault("read", entry.name) \in faults THEN acc
        ELSE IF Fault("writeOpen", entry.name) \in faults THEN acc
        ELSE IF Fault("writeShort", entry.name) \in faults
             THEN [acc EXCEPT !.store = Put(@, persistentPath, Truncated)]
        ELSE IF targetFailed THEN copied
        ELSE [copied EXCEPT
                !.registry = RegisterArtifact(@, containerID, entry.name, persistentPath),
                !.uris = Append(@, ArtifactURI(containerID, entry.name))]

\* A loop body that leaves out a file whose key is registered already.
CollectFile_SkipRegistered(acc, entry, containerID, targetPath, faults) ==
    LET persistentPath == PersistentPath(containerID, entry.name)
        stored == [acc EXCEPT !.store = Put(@, persistentPath, entry.data)]
        copied == CopyToTarget(stored, entry, targetPath, faults)
    IN  IF entry.isDir THEN acc
        ELSE IF RegistryKey(containerID, entry.name) \in DOMAIN acc.registry THEN acc
        ELSE IF Fault("read", entry.name) \in faults THEN acc
        ELSE IF Fault("writeOpen", entry.name) \in faults THEN acc
        ELSE IF Fault("writeShort", entry.name) \in faults
             THEN [acc EXCEPT !.store = Put(@, persistentPath, Truncated)]
        ELSE [copied EXCEPT
                !.registry = RegisterArtifact(@, containerID, entry.name, persistentPath),
                !.uris = Append(@, ArtifactURI(containerID, entry.name))]

\* Lines 158-214, the body of the loop for one entry: a directory is skipped;
\* a file that cannot be read, or whose durable copy cannot be written, is
\* skipped after a warning (a failed os.WriteFile has either changed nothing
\* or left the file truncated); otherwise the file is copied to targetPath,
\* registered, and its URI appended.
CollectFile(acc, entry, containerID, targetPath, faults) ==
    LET persistentPath == PersistentPath(containerID, entry.name)
        stored == [acc EXCEPT !.store = Put(@, persistentPath, entry.data)]
        copied == CopyToTarget(stored, entry, targetPath, faults)
    IN  IF entry.isDir THEN acc
        ELSE IF Fault("read", entry.name) \in faults THEN acc
        ELSE IF Fault("writeOpen", entry.name) \in faults THEN acc
        ELSE IF Fault("writeShort", entry.name) \in faults
             THEN [acc EXCEPT !.store = Put(@, persistentPath, Truncated)]
        ELSE [copied EXCEPT
                !.registry = RegisterArtifact(@, containerID, entry.name, persistentPath),
                !.uris = Append(@, ArtifactURI(containerID, entry.name))]

\* A loop that takes the entries of the listing from the last to the first.
RECURSIVE CollectFiles_LastFirst(_, _, _, _, _)
CollectFiles_LastFirst(acc, files, containerID, targetPath, faults) ==
    IF files = <<>> THEN acc
    ELSE CollectFiles_LastFirst(
             CollectFile(acc, files[Len(files)], containerID, targetPath, faults),
             SubSeq(files, 1, Len(files) - 1), containerID, targetPath, faults)

\* Lines 157-214: the loop over the listing.
RECURSIVE CollectFiles(_, _, _, _, _)
CollectFiles(acc, files, containerID, targetPath, faults) ==
    IF files = <<>> THEN acc
    ELSE CollectFiles(CollectFile(acc, Head(files), containerID, targetPath, faults),
                      Tail(files), containerID, targetPath, faults)

\* A collector that creates the container directory before it looks at the
\* length of the listing.
CollectArtifactsFromDir_MkdirFirst(containerID, files, targetPath, fs, faults) ==
    LET start == [uris |-> <<>>, err |-> NoErr, registry |-> fs.registry,
                  store |-> fs.store, outputDir |-> fs.outputDir,
                  outputFiles |-> fs.outputFiles]
    IN  IF Fault("readDir", "") \in faults
        THEN [start EXCEPT !.err = "failed to read artifacts directory"]
        ELSE IF Fault("mkdir", "") \in faults
        THEN [start EXCEPT !.err = "failed to create container directory"]
        ELSE CollectFiles(
                 [start EXCEPT !.store = Put(@, ContainerDir(containerID), DirMark)],
                 files, containerID, targetPath, faults)

\* Lines 127-217. files is what os.ReadDir(artifactsDir) lists. The result
\* holds the returned URIs and error and the files after the call.
CollectArtifactsFromDir(containerID, files, targetPath, fs, faults) ==
    LET start == [uris |-> <<>>, err |-> NoErr, registry |-> fs.registry,
                  store |-> fs.store, outputDir |-> fs.outputDir,
                  outputFiles |-> fs.outputFiles]
    IN  IF Fault("readDir", "") \in faults
        THEN [start EXCEPT !.err = "failed to read artifacts directory"]
        ELSE IF Len(files) = 0 THEN start
        ELSE IF Fault("mkdir", "") \in faults
        THEN [start EXCEPT !.err = "failed to create container directory"]
        ELSE CollectFiles(
                 [start EXCEPT !.store = Put(@, ContainerDir(containerID), DirMark)],
                 files, containerID, targetPath, faults)

\* The file operations a call with this listing and target reaches.
FaultPoints(files, targetPath) ==
    {Fault("readDir", "")}
    \cup (IF files = <<>> THEN {} ELSE {Fault("mkdir", "")})
    \cup {Fault(op, files[i].name) :
              op \in {"read", "writeOpen", "writeShort"},
              i \in {j \in DOMAIN files : ~files[j].isDir}}
    \cup (IF targetPath = "" THEN {}
          ELSE {Fault(op, files[i].name) :
                    op \in {"mkdirTarget", "writeTargetOpen", "writeTargetShort"},
                    i \in {j \in DOMAIN files : ~files[j].isDir}})

\* The subsets of points with at most n elements.
RECURSIVE SubsetsUpTo(_, _)
SubsetsUpTo(points, n) ==
    IF n = 0 THEN {{}}
    ELSE LET smaller == SubsetsUpTo(points, n - 1)
         IN  smaller \cup {F \cup {p} : F \in smaller, p \in points}

\* The sets of failing operations of one call, when budget more operations
\* may fail.
FaultSets(files, targetPath, budget) ==
    SubsetsUpTo(FaultPoints(files, targetPath), budget)


-----------------------------------------------------------------------------
(* Package resources: fetch, listing and purge.                              *)

\* What GetContainerArtifact returns with an error.
NoContents == "<nil>"

\* A fetch that does not look at the ok of the registry lookup: a missing key
\* gives the empty path, which os.ReadFile cannot read.
GetContainerArtifact_Unchecked(uri, registry, store) ==
    LET uriPath == TrimPrefix(uri, "artifacts://")
        path == IF uriPath \in DOMAIN registry THEN registry[uriPath] ELSE ""
    IN  IF path \notin DOMAIN store \/ store[path] = DirMark
        THEN [err |-> "failed to read artifact", uri |-> uri,
              mimeType |-> NoContents, text |-> NoContents]
        ELSE [err |-> NoErr, uri |-> uri,
              mimeType |-> guessMimeType(Base(path)), text |-> store[path]]

\* Lines 61-86. os.ReadFile fails when the durable file is gone (or is a
\* directory); string(data) keeps the bytes as they are.
GetContainerArtifact(uri, registry, store) ==
    LET uriPath == TrimPrefix(uri, "artifacts://")
    IN  IF uriPath \notin DOMAIN registry
        THEN [err |-> "artifact not found", uri |-> uri,
              mimeType |-> NoContents, text |-> NoContents]
        ELSE LET path == registry[uriPath]
             IN  IF path \notin DOMAIN store \/ store[path] = DirMark
                 THEN [err |-> "failed to read artifact", uri |-> uri,
                       mimeType |-> NoContents, text |-> NoContents]
                 ELSE [err |-> NoErr, uri |-> uri,
                       mimeType |-> guessMimeType(Base(path)), text |-> store[path]]

\* Lines 46-52: the mcp.Resource of one key.
Resource(key) ==
    [uri |-> "artifacts://" \o key, name |-> SplitLast(key),
     mimeType |-> guessMimeType(SplitLast(key)), container |-> SplitFirst(key)]

\* A listing that does not compare the key with the prefix.
ListContainerArtifacts_All(prefix, registry) ==
    {Resource(key) : key \in {k \in DOMAIN registry : SplitLen(k) >= 2}}

\* Lines 38-58. The order of a range over a map is unspecified: the result
\* is the set of the resources appended, one for each key.
ListContainerArtifacts(prefix, registry) ==
    LET trimmed == TrimPrefix(prefix, "artifacts://")
    IN  {Resource(key) :
             key \in {k \in DOMAIN registry : HasPrefix(k, trimmed) /\ SplitLen(k) >= 2}}

\* A purge that removes the file and leaves the registry as it is.
CleanupArtifact_FileOnly(artifactPath, registry, store, faults) ==
    LET removable ==
            /\ Fault("remove", "") \notin faults
            /\ artifactPath \in DOMAIN store
            /\ store[artifactPath] = DirMark
                   => \A p \in DOMAIN store : ~HasPrefix(p, artifactPath \o "/")
    IN  [registry |-> registry,
         store |-> IF removable THEN Drop(store, {artifactPath}) ELSE store]

\* A purge that removes the keys of every artifact of the same container.
CleanupArtifact_WholeContainer(artifactPath, registry, store, faults) ==
    LET sameContainer(key) ==
            /\ SplitLen(artifactPath) >= 2
            /\ HasPrefix(registry[key],
                         SubSeq(artifactPath, 1,
                                Len(artifactPath) - Len(Base(artifactPath))))
        keysToRemove == {key \in DOMAIN registry :
                             registry[key] = artifactPath \/ sameContainer(key)}
        removable ==
            /\ Fault("remove", "") \notin faults
            /\ artifactPath \in DOMAIN store
            /\ store[artifactPath] = DirMark
                   => \A p \in DOMAIN store : ~HasPrefix(p, artifactPath \o "/")
    IN  [registry |-> Drop(registry, keysToRemove),
         store |-> IF removable THEN Drop(store, {artifactPath}) ELSE store]

\* Lines 108-123. os.Remove removes a file or an empty directory; its error
\* is dropped.
CleanupArtifact(artifactPath, registry, store, faults) ==
    LET keysToRemove == {key \in DOMAIN registry : registry[key] = artifactPath}
        removable ==
            /\ Fault("remove", "") \notin faults
            /\ artifactPath \in DOMAIN store
            /\ store[artifactPath] = DirMark
                   => \A p \in DOMAIN store : ~HasPrefix(p, artifactPath \o "/")
    IN  [registry |-> Drop(registry, keysToRemove),
         store |-> IF removable THEN Drop(store, {artifactPath}) ELSE store]

-----------------------------------------------------------------------------
(* The collector applied to the files of the process.                       *)

\* CollectArtifactsFromDir on the registry and the directories as they are.
Collected(containerID, files, targetPath, faults) ==
    CollectArtifactsFromDir(
        containerID, files, targetPath,
        [registry |-> artifactsRegistry, store |-> persistentStore,
         outputDir |-> outputDir, outputFiles |-> outputFiles],
        faults)

\* The bytes of each key at its last harvest: a call that returns the URI of
\* a file records the bytes it read; a call that changes the durable copy of
\* a key without returning its URI (a failed write that truncated the file)
\* ends the record of the key.
HarvestedAfter(containerID, files, r) ==
    LET regular == {i \in DOMAIN files : ~files[i].isDir}
        returned == {i \in regular :
                        ArtifactURI(containerID, files[i].name) \in Range(r.uris)}
        damaged == {i \in regular \ returned :
                       LET path == PersistentPath(containerID, files[i].name)
                       IN  /\ path \in DOMAIN r.store
                           /\ path \in DOMAIN persistentStore
                                  => r.store[path] # persistentStore[path]}
        new == {RegistryKey(containerID, files[i].name) : i \in returned}
        lost == {RegistryKey(containerID, files[i].name) : i \in damaged}
        bytes(key) == files[CHOOSE i \in returned :
                                RegistryKey(containerID, files[i].name) = key].data
    IN  [key \in ((DOMAIN harvested) \ lost) \cup new |->
            IF key \in new THEN bytes(key) ELSE harvested[key]]

\* The call changes the registry and the store.
ApplyCollect(containerID, files, r) ==
    /\ artifactsRegistry' = r.registry
    /\ persistentStore' = r.store
    /\ harvested' = HarvestedAfter(containerID, files, r)

\* The bytes the executed code writes into its artifact.
ArtifactBytes == "x"

\* os.ReadDir of the artifacts directory of a run.
ReadDir(names) == [i \in DOMAIN names |-> RegularFile(names[i], ArtifactBytes)]

\* part_000, lines 329-351: the loop of the direct copy to outputPath.
RECURSIVE DirectCopyFiles(_, _, _)
DirectCopyFiles(out, files, faults) ==
    IF files = <<>> THEN out
    ELSE LET entry == Head(files)
             next == IF entry.isDir THEN out
                     ELSE IF Fault("read", entry.name) \in faults THEN out
                     ELSE IF Fault("writeTargetOpen", entry.name) \in faults THEN out
                     ELSE IF Fault("writeTargetShort", entry.name) \in faults
                          THEN Put(out, entry.name, Truncated)
                     ELSE Put(out, entry.name, entry.data)
         IN  DirectCopyFiles(next, Tail(files), faults)

\* part_000, lines 318-354: after the collection runInDocker copies the
\* files of the artifacts directory to outputPath once more; every failure
\* is printed and nothing else. out is [outputDir, outputFiles].
DirectCopy(outputPath, files, out, faults) ==
    IF outputPath = "" \/ Fault("readDir", "") \in faults \/ Len(files) = 0
    THEN out
    ELSE IF Fault("mkdirTarget", "") \in faults THEN out
    ELSE [outputDir |-> "exists",
          outputFiles |-> DirectCopyFiles(out.outputFiles, files, faults)]

\* The file operations the direct copy reaches.
DirectCopyFaultPoints(outputPath, files) ==
    IF outputPath = "" THEN {}
    ELSE {Fault("readDir", "")}
         \cup (IF files = <<>> THEN {} ELSE {Fault("mkdirTarget", "")})
         \cup {Fault(op, files[i].name) :
                   op \in {"read", "writeTargetOpen", "writeTargetShort"},
                   i \in {j \in DOMAIN files : ~files[j].isDir}}

DirectCopyFaultSets(outputPath, files, budget) ==
    SubsetsUpTo(DirectCopyFaultPoints(outputPath, files), budget)

\* projectArtifactsDir of runProjectInDocker (part_002, line 214).
ProjectArtifactsDir == "/project/artifacts"

-----------------------------------------------------------------------------
(* RunCodeSandbox: the coordinator of a run_code request. *)

\* The handler returns r to the caller.
Return(r) ==
    /\ reply' = r
    /\ pc' = "done"

\* Lines 22-58: the type assertions on the arguments and the output directory.
RunCodeSandbox_Begin ==
    /\ ~crashed /\ request.tool = "run_code" /\ pc = "entry"
    /\ IF request.language = NotAString
       THEN Return(ToolResultError("Language not supported")) /\ UNCHANGED outputDir
       ELSE IF request.badArg = "code"
       THEN Return(ToolResultError("language must be a string")) /\ UNCHANGED outputDir
       ELSE IF request.outputPath = ""
       THEN pc' = "notify" /\ UNCHANGED <<reply, outputDir>>
       ELSE \E outcome \in (IF outputDir = "absent" THEN {"created", "mkdirFail"}
                                                    ELSE {"exists", "statErr"}) :
              CASE outcome = "mkdirFail" ->
                     Return(ToolResultError("Failed to create output directory"))
                     /\ UNCHANGED outputDir
                [] outcome = "statErr" ->
                     Return(ToolResultError("Error checking output directory"))
                     /\ UNCHANGED outputDir
                [] OTHER ->
                     pc' = "notify" /\ outputDir' = "exists" /\ UNCHANGED reply
    /\ UNCHANGED <<persistentStore, outputFiles, lastOp, harvested, collectors, deps, sandboxVars>>
    /\ UNCHANGED <<request, wpc, resultCh, ret, progress, polls, sent, sendFailures,
                   crashed, container, calls, waitResult, logs, tmpDir,
                   artifactsDir, artifactFiles, artifactsRegistry>>

\* Lines 60-76: the initial notification; the handler returns when it is not
\* delivered.
RunCodeSandbox_Notify ==
    /\ ~crashed /\ request.tool = "run_code" /\ pc = "notify"
    /\ IF request.token # NoToken
       THEN \E ok \in Deliveries :
              /\ sent' = Append(sent, ProgressNote(10, "initial", ok))
              /\ sendFailures' = sendFailures + Failed(ok)
              /\ IF ok THEN pc' = "launch" /\ UNCHANGED reply
                       ELSE Return(CouldNotSendResult)
       ELSE pc' = "launch" /\ UNCHANGED <<sent, sendFailures, reply>>
    /\ UNCHANGED <<persistentStore, outputFiles, lastOp, harvested, collectors, deps, sandboxVars>>
    /\ UNCHANGED <<request, wpc, resultCh, ret, progress, polls, crashed, container,
                   calls, waitResult, logs, tmpDir, artifactsDir, outputDir,
                   artifactFiles, artifactsRegistry>>

\* Lines 78-98: make the channel, start the goroutine, progress := 20.
RunCodeSandbox_Launch ==
    /\ ~crashed /\ request.tool = "run_code" /\ pc = "launch"
    /\ resultCh' = <<>>
    /\ wpc' = "client"
    /\ progress' = 20
    /\ pc' = "select"
    /\ UNCHANGED <<persistentStore, outputFiles, lastOp, harvested, collectors, deps, sandboxVars>>
    /\ UNCHANGED <<request, ret, polls, sent, sendFailures, reply, crashed, container,
                   calls, waitResult, logs, tmpDir, artifactsDir, outputDir,
                   artifactFiles, artifactsRegistry>>

\* Lines 100-121: a result is on the channel: send the final notification
\* (its error is dropped) and return.
RunCodeSandbox_Receive ==
    /\ ~crashed /\ request.tool = "run_code" /\ pc = "select"
    /\ resultCh # <<>>
    /\ resultCh' = Tail(resultCh)
    /\ IF request.token # NoToken
       THEN \E ok \in Deliveries :
              /\ sent' = Append(sent, ProgressNote(100, "final", ok))
              /\ sendFailures' = sendFailures + Failed(ok)
       ELSE UNCHANGED <<sent, sendFailures>>
    /\ Return(RunCodeReply(Head(resultCh)))
    /\ UNCHANGED <<persistentStore, outputFiles, lastOp, harvested, collectors, deps, sandboxVars>>
    /\ UNCHANGED <<request, wpc, ret, progress, polls, crashed, container, calls,
                   waitResult, logs, tmpDir, artifactsDir, outputDir, artifactFiles,
                   artifactsRegistry>>

\* A default case that gives up: with nothing on the channel the handler
\* returns an error.
RunCodeSandbox_Default_Timeout ==
    /\ ~crashed /\ request.tool = "run_code" /\ pc = "select"
    /\ resultCh = <<>>
    /\ polls < MaxPolls
    /\ Return(ToolResultError("timeout"))
    /\ UNCHANGED <<persistentStore, outputFiles, lastOp, harvested, collectors, deps, sandboxVars>>
    /\ UNCHANGED <<request, wpc, resultCh, ret, progress, polls, sent, sendFailures,
                   crashed, container, calls, waitResult, logs, tmpDir,
                   artifactsDir, outputDir, artifactFiles, artifactsRegistry>>

\* Lines 122-123: nothing on the channel: the default case starts to sleep.
RunCodeSandbox_Default ==
    /\ ~crashed /\ request.tool = "run_code" /\ pc = "select"
    /\ resultCh = <<>>
    /\ polls < MaxPolls
    /\ pc' = "sleep"
    /\ UNCHANGED <<persistentStore, outputFiles, lastOp, harvested, collectors, deps, sandboxVars>>
    /\ UNCHANGED <<request, wpc, resultCh, ret, progress, polls, sent, sendFailures,
                   reply, crashed, container, calls, waitResult, logs, tmpDir,
                   artifactsDir, outputDir, artifactFiles, artifactsRegistry>>

\* Lines 125-129: the next value of progress.
NextProgress(p) == IF p >= 90 /\ p < 100 THEN p + 1 ELSE p + 5

\* Lines 124-142: after the sleep, advance progress and emit it; a failed
\* delivery is reported with notifications/error and the loop goes on.
RunCodeSandbox_Poll ==
    /\ ~crashed /\ request.tool = "run_code" /\ pc = "sleep"
    /\ IF request.token # NoToken
       THEN /\ progress' = NextProgress(progress)
            /\ polls' = polls + 1
            /\ \E ok \in Deliveries :
                 /\ sent' = IF ok
                            THEN Append(sent, ProgressNote(progress', "poll", TRUE))
                            ELSE Append(Append(sent, ProgressNote(progress', "poll", FALSE)),
                                        ErrorNote)
                 /\ sendFailures' = sendFailures + Failed(ok)
       ELSE UNCHANGED <<progress, polls, sent, sendFailures>>
    /\ pc' = "select"
    /\ UNCHANGED <<persistentStore, outputFiles, lastOp, harvested, collectors, deps, sandboxVars>>
    /\ UNCHANGED <<request, wpc, resultCh, ret, reply, crashed, container, calls,
                   waitResult, logs, tmpDir, artifactsDir, outputDir, artifactFiles,
                   artifactsRegistry>>

-----------------------------------------------------------------------------
(* The sandbox container and the Docker backend. *)

\* cli.ImagePull, then io.Copy of its output. The client parses the image
\* reference before it contacts the daemon, and the empty reference of an
\* id that is not in the table does not parse.
ImagePullOutcomes(image) ==
    IF image = "" THEN {"pullFail"} ELSE {"ok", "pullFail", "copyFail"}

\* The directory bound to /artifacts exists.
ArtifactsMountExists ==
    IF request.tool = "run_code" THEN tmpDir = "exists" ELSE artifactsDir = "exists"

\* The executed code writes a file below /artifacts.
Container_Write ==
    /\ container = "running"
    /\ ArtifactsMountExists
    /\ artifactFiles = <<>>
    /\ artifactFiles' = <<"result.png">>
    /\ UNCHANGED <<persistentStore, outputFiles, lastOp, harvested, collectors, deps, sandboxVars>>
    /\ UNCHANGED <<request, pc, wpc, resultCh, ret, progress, polls, sent, sendFailures,
                   reply, crashed, container, calls, waitResult, logs, tmpDir,
                   artifactsDir, outputDir, artifactsRegistry>>

\* The executed code terminates.
Container_Exit ==
    /\ container = "running"
    /\ container' = "exited"
    /\ UNCHANGED <<persistentStore, outputFiles, lastOp, harvested, collectors, deps, sandboxVars>>
    /\ UNCHANGED <<request, pc, wpc, resultCh, ret, progress, polls, sent, sendFailures,
                   reply, crashed, calls, waitResult, logs, tmpDir, artifactsDir,
                   outputDir, artifactFiles, artifactsRegistry>>

-----------------------------------------------------------------------------
(* runInDocker, run by the goroutine of RunCodeSandbox. *)

\* A runInDocker whose deferred os.RemoveAll(tmpDir) is missing.
RemoveTmpDir_Missing ==
    UNCHANGED <<tmpDir, artifactFiles>>

\* The deferred os.RemoveAll(tmpDir), once the defer statement was reached.
RemoveTmpDir ==
    /\ tmpDir' = IF tmpDir = "exists" THEN "removed" ELSE tmpDir
    /\ artifactFiles' = IF tmpDir = "exists" THEN <<>> ELSE artifactFiles

\* return l, a, e: the deferred calls run and the goroutine holds the values.
runInDocker_Return(l, a, e) ==
    /\ ret' = Result("", l, a, e)
    /\ wpc' = "returned"
    /\ RemoveTmpDir

\* Lines 148-155: client.NewClientWithOpts.
runInDocker_NewClient ==
    /\ ~crashed /\ wpc = "client"
    /\ \E ok \in BOOLEAN :
         IF ok THEN wpc' = "pull" /\ UNCHANGED <<ret, tmpDir, artifactFiles>>
               ELSE runInDocker_Return("", <<>>, "failed to create Docker client")
    /\ UNCHANGED <<persistentStore, outputFiles, lastOp, harvested, collectors, deps, sandboxVars>>
    /\ UNCHANGED <<request, pc, resultCh, progress, polls, sent, sendFailures, reply,
                   crashed, container, calls, waitResult, logs, artifactsDir,
                   outputDir, artifactsRegistry>>

\* Lines 157-167: pull the image of the language.
runInDocker_ImagePull ==
    /\ ~crashed /\ wpc = "pull"
    /\ calls' = Append(calls, "pull")
    /\ \E outcome \in ImagePullOutcomes(Image(request.language)) :
         CASE outcome = "pullFail" ->
                runInDocker_Return("", <<>>, "failed to pull Docker image")
           [] outcome = "copyFail" ->
                runInDocker_Return("", <<>>, "failed to copy Docker image pull output")
           [] OTHER -> wpc' = "mkdirTemp" /\ UNCHANGED <<ret, tmpDir, artifactFiles>>
    /\ UNCHANGED <<persistentStore, outputFiles, lastOp, harvested, collectors, deps, sandboxVars>>
    /\ UNCHANGED <<request, pc, resultCh, progress, polls, sent, sendFailures, reply,
                   crashed, container, waitResult, logs, artifactsDir, outputDir,
                   artifactsRegistry>>

\* Lines 169-176: os.MkdirTemp and the defer of os.RemoveAll(tmpDir).
runInDocker_MkdirTemp ==
    /\ ~crashed /\ wpc = "mkdirTemp"
    /\ \E ok \in BOOLEAN :
         IF ok THEN /\ tmpDir' = "exists"
                    /\ wpc' = "stage"
                    /\ UNCHANGED <<ret, artifactFiles>>
               ELSE runInDocker_Return("", <<>>, "failed to create temporary directory")
    /\ UNCHANGED <<persistentStore, outputFiles, lastOp, harvested, collectors, deps, sandboxVars>>
    /\ UNCHANGED <<request, pc, resultCh, progress, polls, sent, sendFailures, reply,
                   crashed, container, calls, waitResult, logs, artifactsDir,
                   outputDir, artifactsRegistry>>

\* What can go wrong while staging: the artifacts directory, the code file
\* and, for Python code that imports packages, requirements.txt.
StageOutcomes(language) ==
    {"ok", "mkdirFail", "writeFail"} \cup (IF language = "python" THEN {"reqFail"} ELSE {})

StageErr(outcome) ==
    CASE outcome = "mkdirFail" -> "failed to create artifacts directory"
      [] outcome = "writeFail" -> "failed to write code to temporary file"
      [] outcome = "reqFail" -> "failed to write requirements file"
      [] OTHER -> NoErr

\* Lines 178-212: the artifacts directory, the code file, the requirements.
runInDocker_Stage ==
    /\ ~crashed /\ wpc = "stage"
    /\ \E outcome \in StageOutcomes(request.language) :
         IF outcome = "ok"
         THEN wpc' = "create" /\ UNCHANGED <<ret, tmpDir, artifactFiles>>
         ELSE runInDocker_Return("", <<>>, StageErr(outcome))
    /\ UNCHANGED <<persistentStore, outputFiles, lastOp, harvested, collectors, deps, sandboxVars>>
    /\ UNCHANGED <<request, pc, resultCh, progress, polls, sent, sendFailures, reply,
                   crashed, container, calls, waitResult, logs, artifactsDir,
                   outputDir, artifactsRegistry>>

\* A bind mount of HostConfig.Binds, "<host>:<target>".
Bind(host, target) == [host |-> host, target |-> target]

\* The temporary directory of runInDocker and its artifacts subdirectory.
TmpDir == "<tmpDir>"
ArtifactsDir == "<tmpDir>/artifacts"

\* Binds that also mount the caller's output directory into the container.
runInDocker_Binds_OutputPath(outputPath, userDir) ==
    <<Bind(TmpDir, "/app"), Bind(ArtifactsDir, "/artifacts")>>
    \o (IF outputPath # "" THEN <<Bind(outputPath, "/output")>> ELSE <<>>)
    \o (IF userDir # "" THEN <<Bind(userDir, "/user-artifacts")>> ELSE <<>>)

\* Lines 232-261: the binds of the container of a run_code request; userDir
\* is os.Getenv("ARTIFACTS_DIR"). outputPath is printed and not used.
runInDocker_Binds(outputPath, userDir) ==
    <<Bind(TmpDir, "/app"), Bind(ArtifactsDir, "/artifacts")>>
    \o (IF userDir # "" THEN <<Bind(userDir, "/user-artifacts")>> ELSE <<>>)

\* Lines 214-281: compose the command, the mounts and the environment,
\* then cli.ContainerCreate.
runInDocker_ContainerCreate ==
    /\ ~crashed /\ wpc = "create"
    /\ calls' = Append(calls, "create")
    /\ \E ok \in BOOLEAN :
         IF ok THEN /\ container' = "created"
                    /\ binds' = runInDocker_Binds(request.outputPath, userArtifactsDir)
                    /\ wpc' = "start"
                    /\ UNCHANGED <<ret, tmpDir, artifactFiles>>
               ELSE /\ runInDocker_Return("", <<>>, "failed to create container")
                    /\ UNCHANGED <<container, binds>>
    /\ UNCHANGED <<persistentStore, outputFiles, lastOp, harvested, collectors, deps,
                   userArtifactsDir, userFiles>>
    /\ UNCHANGED <<request, pc, resultCh, progress, polls, sent, sendFailures, reply,
                   crashed, waitResult, logs, artifactsDir, outputDir,
                   artifactsRegistry>>

\* Lines 283-285: cli.ContainerStart.
runInDocker_ContainerStart ==
    /\ ~crashed /\ wpc = "start"
    /\ calls' = Append(calls, "start")
    /\ \E ok \in BOOLEAN :
         IF ok THEN /\ container' = "running"
                    /\ wpc' = "wait"
                    /\ UNCHANGED <<ret, tmpDir, artifactFiles>>
               ELSE /\ runInDocker_Return("", <<>>, "failed to start container")
                    /\ UNCHANGED container
    /\ UNCHANGED <<persistentStore, outputFiles, lastOp, harvested, collectors, deps, sandboxVars>>
    /\ UNCHANGED <<request, pc, resultCh, progress, polls, sent, sendFailures, reply,
                   crashed, waitResult, logs, artifactsDir, outputDir,
                   artifactsRegistry>>

\* Lines 287-296, case <-statusCh: the backend reports that the container is
\* not running.
runInDocker_WaitStatus ==
    /\ ~crashed /\ wpc = "wait"
    /\ container = "exited"
    /\ calls' = Append(calls, "wait")
    /\ waitResult' = "status"
    /\ wpc' = "logs"
    /\ UNCHANGED <<persistentStore, outputFiles, lastOp, harvested, collectors, deps, sandboxVars>>
    /\ UNCHANGED <<request, pc, resultCh, ret, progress, polls, sent, sendFailures,
                   reply, crashed, container, logs, tmpDir, artifactsDir, outputDir,
                   artifactFiles, artifactsRegistry>>

\* A runInDocker that logs the error of the wait and goes on to fetch the
\* logs instead of panicking.
runInDocker_WaitError_Ignored ==
    /\ ~crashed /\ wpc = "wait"
    /\ calls' = Append(calls, "wait")
    /\ waitResult' = "error"
    /\ wpc' = "logs"
    /\ UNCHANGED <<persistentStore, outputFiles, lastOp, harvested, collectors, deps, sandboxVars>>
    /\ UNCHANGED <<request, pc, resultCh, ret, progress, polls, sent, sendFailures,
                   reply, crashed, container, logs, tmpDir, artifactsDir, outputDir,
                   artifactFiles, artifactsRegistry>>

\* Lines 287-296, case err := <-errCh: panic(err). The deferred calls of the
\* goroutine run and the unrecovered panic ends the process: nothing is put
\* on resultCh and no handler goes on.
runInDocker_WaitError ==
    /\ ~crashed /\ wpc = "wait"
    /\ calls' = Append(calls, "wait")
    /\ waitResult' = "error"
    /\ wpc' = "panicked"
    /\ RemoveTmpDir
    /\ crashed' = TRUE
    /\ UNCHANGED <<persistentStore, outputFiles, lastOp, harvested, collectors, deps, sandboxVars>>
    /\ UNCHANGED <<request, pc, resultCh, ret, progress, polls, sent, sendFailures,
                   reply, container, logs, artifactsDir, outputDir,
                   artifactsRegistry>>

\* A runInDocker that goes on to the collection when the logs could not be
\* fetched.
runInDocker_ContainerLogs_Continue ==
    /\ ~crashed /\ wpc = "logs"
    /\ calls' = Append(calls, "logs")
    /\ \E ok \in BOOLEAN : logs' = IF ok THEN "out" ELSE logs
    /\ wpc' = "collect"
    /\ UNCHANGED <<persistentStore, outputFiles, lastOp, harvested, collectors, deps, sandboxVars>>
    /\ UNCHANGED <<request, pc, resultCh, ret, progress, polls, sent, sendFailures,
                   reply, crashed, container, waitResult, tmpDir, artifactFiles,
                   artifactsDir, outputDir, artifactsRegistry>>

\* Lines 298-308: cli.ContainerLogs and stdcopy.StdCopy into one text.
runInDocker_ContainerLogs ==
    /\ ~crashed /\ wpc = "logs"
    /\ calls' = Append(calls, "logs")
    /\ \E outcome \in {"ok", "logsFail", "copyFail"} :
         CASE outcome = "logsFail" ->
                runInDocker_Return("", <<>>, "failed to get container logs")
                /\ UNCHANGED logs
           [] outcome = "copyFail" ->
                runInDocker_Return("", <<>>, "failed to copy container output")
                /\ UNCHANGED logs
           [] OTHER -> /\ logs' = "out"
                       /\ wpc' = "collect"
                       /\ UNCHANGED <<ret, tmpDir, artifactFiles>>
    /\ UNCHANGED <<persistentStore, outputFiles, lastOp, harvested, collectors, deps, sandboxVars>>
    /\ UNCHANGED <<request, pc, resultCh, progress, polls, sent, sendFailures, reply,
                   crashed, container, waitResult, artifactsDir, outputDir,
                   artifactsRegistry>>

\* Lines 310-357: resources.CollectArtifactsFromDir on the artifacts
\* directory; its error is returned together with the logs.
runInDocker_Collect ==
    /\ ~crashed /\ wpc = "collect"
    /\ calls' = Append(calls, "collect")
    /\ \E faults \in FaultSets(ReadDir(artifactFiles), request.outputPath, MaxFaults) :
         \E r \in {Collected(ContainerID, ReadDir(artifactFiles), request.outputPath,
                              faults)} :
             /\ ApplyCollect(ContainerID, ReadDir(artifactFiles), r)
             /\ IF r.err = NoErr
                THEN /\ \E copyFaults \in DirectCopyFaultSets(
                                           request.outputPath, ReadDir(artifactFiles),
                                           MaxFaults - Cardinality(faults)) :
                          LET out == DirectCopy(
                                         request.outputPath, ReadDir(artifactFiles),
                                         [outputDir |-> r.outputDir,
                                          outputFiles |-> r.outputFiles],
                                         copyFaults)
                          IN  /\ outputDir' = out.outputDir
                              /\ outputFiles' = out.outputFiles
                     /\ runInDocker_Return(logs, r.uris, NoErr)
                ELSE /\ outputDir' = r.outputDir
                     /\ outputFiles' = r.outputFiles
                     /\ runInDocker_Return(logs, <<>>, "failed to collect artifacts")
    /\ UNCHANGED <<request, pc, resultCh, progress, polls, sent, sendFailures, reply,
                   crashed, container, waitResult, logs, artifactsDir, lastOp, collectors, deps, sandboxVars>>

\* The send on a channel made without a buffer: it completes only while the
\* coordinator is at its select, ready to receive.
RunCodeSandbox_Send_Unbuffered ==
    /\ ~crashed /\ wpc = "returned"
    /\ pc = "select"
    /\ Len(resultCh) < 1
    /\ resultCh' = Append(resultCh, ret)
    /\ wpc' = "exited"
    /\ UNCHANGED <<persistentStore, outputFiles, lastOp, harvested, collectors, deps, sandboxVars>>
    /\ UNCHANGED <<request, pc, ret, progress, polls, sent, sendFailures, reply,
                   crashed, container, calls, waitResult, logs, tmpDir, artifactsDir,
                   outputDir, artifactFiles, artifactsRegistry>>

\* Lines 89-96: the goroutine puts the return values on resultCh and ends.
RunCodeSandbox_Send ==
    /\ ~crashed /\ wpc = "returned"
    /\ Len(resultCh) < 1
    /\ resultCh' = Append(resultCh, ret)
    /\ wpc' = "exited"
    /\ UNCHANGED <<persistentStore, outputFiles, lastOp, harvested, collectors, deps, sandboxVars>>
    /\ UNCHANGED <<request, pc, ret, progress, polls, sent, sendFailures, reply,
                   crashed, container, calls, waitResult, logs, tmpDir, artifactsDir,
                   outputDir, artifactFiles, artifactsRegistry>>

-----------------------------------------------------------------------------
(* RunProjectSandbox and runProjectInDocker: a run_project request. *)

\* return id, a, e from runProjectInDocker.
runProjectInDocker_Return(id, a, e) ==
    /\ ret' = Result(id, "", a, e)
    /\ pc' = "reply"

\* Lines 71-96: the type assertions on the arguments and the project
\* directory; a bad argument is the handler's own error.
RunProjectSandbox_Begin ==
    /\ ~crashed /\ request.tool = "run_project" /\ pc = "entry"
    /\ IF request.language = NotAString THEN Return(HandlerError("invalid language"))
       ELSE IF request.badArg = "entrypointCmd" THEN Return(HandlerError("invalid entrypoint"))
       ELSE IF request.badArg = "projectDir" THEN Return(HandlerError("invalid projectDir"))
       ELSE IF request.badArg = "missing"
       THEN Return(HandlerError("project directory does not exist"))
       ELSE pc' = "client" /\ UNCHANGED reply
    /\ UNCHANGED <<persistentStore, outputFiles, lastOp, harvested, collectors, deps, sandboxVars>>
    /\ UNCHANGED <<request, wpc, resultCh, ret, progress, polls, sent, sendFailures,
                   crashed, container, calls, waitResult, logs, tmpDir, artifactsDir,
                   outputDir, artifactFiles, artifactsRegistry>>

\* Lines 113-119: client.NewClientWithOpts.
runProjectInDocker_NewClient ==
    /\ ~crashed /\ request.tool = "run_project" /\ pc = "client"
    /\ \E ok \in BOOLEAN :
         IF ok THEN pc' = "notify10" /\ UNCHANGED ret
               ELSE runProjectInDocker_Return("", <<>>, "failed to create Docker client")
    /\ UNCHANGED <<persistentStore, outputFiles, lastOp, harvested, collectors, deps, sandboxVars>>
    /\ UNCHANGED <<request, wpc, resultCh, progress, polls, sent, sendFailures, reply,
                   crashed, container, calls, waitResult, logs, tmpDir, artifactsDir,
                   outputDir, artifactFiles, artifactsRegistry>>

\* Lines 121-131: the initial notification; the run returns an error when
\* it is not delivered.
runProjectInDocker_Notify10 ==
    /\ ~crashed /\ request.tool = "run_project" /\ pc = "notify10"
    /\ IF request.token # NoToken
       THEN \E ok \in Deliveries :
              /\ sent' = Append(sent, ProgressNote(10, "initial", ok))
              /\ sendFailures' = sendFailures + Failed(ok)
              /\ IF ok THEN pc' = "pull" /\ UNCHANGED ret
                       ELSE runProjectInDocker_Return(
                                "", <<>>, "failed to send progress notification")
       ELSE pc' = "pull" /\ UNCHANGED <<sent, sendFailures, ret>>
    /\ UNCHANGED <<persistentStore, outputFiles, lastOp, harvested, collectors, deps, sandboxVars>>
    /\ UNCHANGED <<request, wpc, resultCh, progress, polls, reply, crashed, container,
                   calls, waitResult, logs, tmpDir, artifactsDir, outputDir,
                   artifactFiles, artifactsRegistry>>

\* Lines 133-137: cli.ImagePull (its output is not read).
runProjectInDocker_ImagePull ==
    /\ ~crashed /\ request.tool = "run_project" /\ pc = "pull"
    /\ calls' = Append(calls, "pull")
    /\ \E outcome \in ImagePullOutcomes(Image(request.language)) \ {"copyFail"} :
         IF outcome = "ok" THEN pc' = "mkdirTemp" /\ UNCHANGED ret
         ELSE runProjectInDocker_Return("", <<>>, "failed to pull Docker image")
    /\ UNCHANGED <<persistentStore, outputFiles, lastOp, harvested, collectors, deps, sandboxVars>>
    /\ UNCHANGED <<request, wpc, resultCh, progress, polls, sent, sendFailures, reply,
                   crashed, container, waitResult, logs, tmpDir, artifactsDir,
                   outputDir, artifactFiles, artifactsRegistry>>

\* Lines 139-211: the dependency manifest of the project (which touches the
\* project directory only), then os.MkdirTemp for the artifacts.
runProjectInDocker_MkdirTemp ==
    /\ ~crashed /\ request.tool = "run_project" /\ pc = "mkdirTemp"
    /\ \E ok \in BOOLEAN :
         IF ok THEN /\ artifactsDir' = "exists"
                    /\ pc' = "mkdirAll"
                    /\ UNCHANGED ret
               ELSE /\ runProjectInDocker_Return(
                           "", <<>>, "failed to create temporary artifacts directory")
                    /\ UNCHANGED artifactsDir
    /\ UNCHANGED <<persistentStore, outputFiles, lastOp, harvested, collectors, deps, sandboxVars>>
    /\ UNCHANGED <<request, wpc, resultCh, progress, polls, sent, sendFailures, reply,
                   crashed, container, calls, waitResult, logs, tmpDir, outputDir,
                   artifactFiles, artifactsRegistry>>

\* Lines 213-265: os.MkdirAll of <projectDir>/artifacts, then the container
\* configuration and command; a failure removes the temporary directory.
runProjectInDocker_MkdirAll ==
    /\ ~crashed /\ request.tool = "run_project" /\ pc = "mkdirAll"
    /\ \E ok \in BOOLEAN :
         IF ok THEN /\ pc' = "notify50"
                    /\ outputDir' = "exists"
                    /\ UNCHANGED <<ret, artifactsDir>>
               ELSE /\ artifactsDir' = "removed"
                    /\ runProjectInDocker_Return(
                           "", <<>>, "failed to create project artifacts directory")
                    /\ UNCHANGED outputDir
    /\ UNCHANGED <<persistentStore, outputFiles, lastOp, harvested, collectors, deps, sandboxVars>>
    /\ UNCHANGED <<request, wpc, resultCh, progress, polls, sent, sendFailures, reply,
                   crashed, container, calls, waitResult, logs, tmpDir,
                   artifactFiles, artifactsRegistry>>

\* A notification whose delivery error is not looked at (lines 267-275,
\* 325-333 and 340-348).
runProjectInDocker_Notify(at, p, next) ==
    /\ ~crashed /\ request.tool = "run_project" /\ pc = at
    /\ IF request.token # NoToken
       THEN \E ok \in Deliveries :
              /\ sent' = Append(sent, ProgressNote(p, at, ok))
              /\ sendFailures' = sendFailures + Failed(ok)
       ELSE UNCHANGED <<sent, sendFailures>>
    /\ pc' = next
    /\ UNCHANGED <<persistentStore, outputFiles, lastOp, harvested, collectors, deps, sandboxVars>>
    /\ UNCHANGED <<request, wpc, resultCh, ret, progress, polls, reply, crashed,
                   container, calls, waitResult, logs, tmpDir, artifactsDir,
                   outputDir, artifactFiles, artifactsRegistry>>

\* Lines 267-275.
runProjectInDocker_Notify50 == runProjectInDocker_Notify("notify50", 50, "create")

\* Lines 279-282: the binds of the container of a run_project request, the
\* project directory and the project-artifacts-* directory.
runProjectInDocker_Binds ==
    <<Bind("<projectDir>", "/app"), Bind("<artifactsDir>", "/artifacts")>>

\* Lines 277-323: the mounts, then cli.ContainerCreate; a failure removes
\* the temporary directory.
runProjectInDocker_ContainerCreate ==
    /\ ~crashed /\ request.tool = "run_project" /\ pc = "create"
    /\ calls' = Append(calls, "create")
    /\ \E ok \in BOOLEAN :
         IF ok THEN /\ container' = "created"
                    /\ binds' = runProjectInDocker_Binds
                    /\ pc' = "notify75"
                    /\ UNCHANGED <<ret, artifactsDir>>
               ELSE /\ artifactsDir' = "removed"
                    /\ runProjectInDocker_Return("", <<>>, "failed to create container")
                    /\ UNCHANGED <<container, binds>>
    /\ UNCHANGED <<persistentStore, outputFiles, lastOp, harvested, collectors, deps,
                   userArtifactsDir, userFiles>>
    /\ UNCHANGED <<request, wpc, resultCh, progress, polls, sent, sendFailures, reply,
                   crashed, waitResult, logs, tmpDir, outputDir, artifactFiles,
                   artifactsRegistry>>

\* Lines 325-333.
runProjectInDocker_Notify75 == runProjectInDocker_Notify("notify75", 75, "start")

\* Lines 335-338: cli.ContainerStart; a failure removes the temporary
\* directory.
runProjectInDocker_ContainerStart ==
    /\ ~crashed /\ request.tool = "run_project" /\ pc = "start"
    /\ calls' = Append(calls, "start")
    /\ \E ok \in BOOLEAN :
         IF ok THEN /\ container' = "running"
                    /\ pc' = "notify100"
                    /\ UNCHANGED <<ret, artifactsDir, artifactFiles>>
               ELSE /\ artifactsDir' = "removed"
                    /\ artifactFiles' = <<>>
                    /\ runProjectInDocker_Return("", <<>>, "failed to start container")
                    /\ UNCHANGED container
    /\ UNCHANGED <<persistentStore, outputFiles, lastOp, harvested, collectors, deps, sandboxVars>>
    /\ UNCHANGED <<request, wpc, resultCh, progress, polls, sent, sendFailures, reply,
                   crashed, waitResult, logs, tmpDir, outputDir, artifactsRegistry>>

\* Lines 340-348.
runProjectInDocker_Notify100 == runProjectInDocker_Notify("notify100", 100, "collect")

\* Lines 350-357: resources.CollectArtifactsFromDir right after the start,
\* and the return of the container id.
runProjectInDocker_Collect ==
    /\ ~crashed /\ request.tool = "run_project" /\ pc = "collect"
    /\ calls' = Append(calls, "collect")
    /\ \E faults \in FaultSets(ReadDir(artifactFiles), ProjectArtifactsDir, MaxFaults) :
         \E r \in {Collected(ContainerID, ReadDir(artifactFiles), ProjectArtifactsDir,
                              faults)} :
             /\ ApplyCollect(ContainerID, ReadDir(artifactFiles), r)
             /\ outputDir' = r.outputDir
             /\ outputFiles' = r.outputFiles
             /\ IF r.err = NoErr
                THEN runProjectInDocker_Return(ContainerID, r.uris, NoErr)
                ELSE runProjectInDocker_Return(
                         ContainerID, <<>>, "failed to collect artifacts")
    /\ UNCHANGED <<request, wpc, resultCh, progress, polls, sent, sendFailures, reply,
                   crashed, container, waitResult, logs, tmpDir, artifactsDir,
                   artifactFiles, lastOp,
                   collectors, deps, sandboxVars>>

\* Lines 97-110: the reply built from what runProjectInDocker returned.
RunProjectSandbox_Reply ==
    /\ ~crashed /\ request.tool = "run_project" /\ pc = "reply"
    /\ Return(RunProjectReply(ret))
    /\ UNCHANGED <<persistentStore, outputFiles, lastOp, harvested, collectors, deps, sandboxVars>>
    /\ UNCHANGED <<request, wpc, resultCh, ret, progress, polls, sent, sendFailures,
                   crashed, container, calls, waitResult, logs, tmpDir, artifactsDir,
                   outputDir, artifactFiles, artifactsRegistry>>

-----------------------------------------------------------------------------
Next ==
    \/ RunCodeSandbox_Begin
    \/ RunCodeSandbox_Notify
    \/ RunCodeSandbox_Launch
    \/ RunCodeSandbox_Receive
    \/ RunCodeSandbox_Default
    \/ RunCodeSandbox_Poll
    \/ RunCodeSandbox_Send
    \/ runInDocker_NewClient
    \/ runInDocker_ImagePull
    \/ runInDocker_MkdirTemp
    \/ runInDocker_Stage
    \/ runInDocker_ContainerCreate
    \/ runInDocker_ContainerStart
    \/ runInDocker_WaitStatus
    \/ runInDocker_WaitError
    \/ runInDocker_ContainerLogs
    \/ runInDocker_Collect
    \/ RunProjectSandbox_Begin
    \/ runProjectInDocker_NewClient
    \/ runProjectInDocker_Notify10
    \/ runProjectInDocker_ImagePull
    \/ runProjectInDocker_MkdirTemp
    \/ runProjectInDocker_MkdirAll
    \/ runProjectInDocker_Notify50
    \/ runProjectInDocker_ContainerCreate
    \/ runProjectInDocker_Notify75
    \/ runProjectInDocker_ContainerStart
    \/ runProjectInDocker_Notify100
    \/ runProjectInDocker_Collect
    \/ RunProjectSandbox_Reply
    \/ Container_Write
    \/ Container_Exit

Spec == Init /\ [][Next]_vars

-----------------------------------------------------------------------------
(* Properties. *)

\* The progress notifications that reached the observer, in order.
DeliveredProgress ==
    SelectSeq(sent, LAMBDA n : n.method = "notifications/progress" /\ n.delivered)

\* All progress notifications handed to the transport, in order.
ProgressNotes == SelectSeq(sent, LAMBDA n : n.method = "notifications/progress")

\* Number of values the goroutine has put on resultCh, and number of values
\* the coordinator has taken from it (it returns right after taking one).
ChannelReceives == IF request.tool = "run_code" /\ wpc # "idle" /\ pc = "done" THEN 1 ELSE 0
ChannelSends == Len(resultCh) + ChannelReceives

\* The container was started and the backend has not reported it stopped.
TerminationUnobserved == container \in {"running", "exited"} /\ waitResult # "status"

\* The replies that report an invalid request.
ConfigInvalidMessages ==
    {"Language not supported", "language must be a string",
     "Failed to create output directory", "Error checking output directory",
     "invalid language", "invalid entrypoint", "invalid projectDir",
     "project directory does not exist"}

\* C1: in a run_code request the progress values that reach the observer
\* (initial value, poll-loop values, final value) never decrease, however
\* many polls elapse before the result arrives.
C1_ProgressNonDecreasing ==
    request.tool = "run_code" =>
        LET values == DeliveredProgress
        IN \A i \in 1..(Len(values) - 1) : values[i].progress <= values[i + 1].progress

\* C2: the poll loop of RunCodeSandbox never emits the terminal value or a
\* value above it, and the terminal value is emitted at most once.
C2_PollBelowTerminal ==
    request.tool = "run_code" =>
        /\ \A i \in DOMAIN ProgressNotes :
               ProgressNotes[i].by = "poll" => ProgressNotes[i].progress < Terminal
        /\ Cardinality({i \in DOMAIN ProgressNotes :
                            ProgressNotes[i].progress = Terminal}) <= 1

\* C3: for a request with a progress token, a progress notification that
\* carries the terminal value is followed by no other progress notification,
\* and when the handler has returned, the last progress notification the
\* observer got carries the terminal value (run_code and run_project).
C3_TerminalIsLast ==
    request.token # NoToken =>
        LET values == DeliveredProgress
        IN /\ \A i \in DOMAIN values :
                  values[i].progress = Terminal => i = Len(values)
           /\ (pc = "done" /\ values # <<>>) => values[Len(values)].progress = Terminal

\* C4: a step that emits the terminal progress value is never taken while
\* the container has been started and its termination has not been observed
\* by the wait operation.
C4_TerminalAfterTermination ==
    [][(/\ Len(sent') > Len(sent)
        /\ \E i \in (Len(sent) + 1)..Len(sent') :
              /\ sent'[i].method = "notifications/progress"
              /\ sent'[i].progress >= Terminal)
       => ~TerminationUnobserved]_vars

\* C5: once the goroutine of a run_code request has been launched it puts
\* at most one value on resultCh, and when it has ended (whatever the
\* outcome of provisioning, waiting, log fetching and harvesting) it has put
\* exactly one there; the coordinator takes at most one.
C5_ExactlyOneResult ==
    (request.tool = "run_code" /\ wpc # "idle") =>
        /\ ChannelSends <= 1
        /\ ChannelReceives <= ChannelSends
        /\ wpc \in {"exited", "panicked"} => ChannelSends = 1

\* C6: when the wait operation reports an error, the run goes on to return
\* that error as its failure result: the process is alive, runInDocker holds
\* an error result for the coordinator, and the wait is not repeated.
C6_WaitErrorPropagated ==
    waitResult = "error" =>
        /\ ~crashed
        /\ ret.kind = "result" /\ ret.err # NoErr
        /\ Len(SelectSeq(calls, LAMBDA c : c = "wait")) = 1

\* C7: when the logs were fetched and harvesting then failed, the reply of
\* the run_code request carries the failure together with the fetched logs.
C7_LogsKeptOnHarvestFailure ==
    (/\ request.tool = "run_code" /\ pc = "done"
     /\ logs # NoLogs
     /\ ret.kind = "result" /\ ret.err = "failed to collect artifacts")
    => reply.isError /\ reply.logs = logs

\* C8: an undelivered progress notification never aborts the request: a
\* handler that has returned after a delivery failure has not returned the
\* failure to notify, and the run was started.
C8_DeliveryFailureDoesNotAbort ==
    (pc = "done" /\ sendFailures > 0) =>
        /\ reply.msg \notin {"Could not send progress to client",
                             "failed to send progress notification"}
        /\ calls # <<>> \/ wpc # "idle"

\* C9: a request whose language id is a string that is not in the runtime
\* profile table creates no container and, when the Docker client is
\* available and the notifications are delivered, is answered with the
\* failure of an invalid request.
C9_UnknownLanguageRejected ==
    (request.language \notin AllLanguages \cup {NotAString} /\ request.badArg = "none") =>
        /\ \A i \in DOMAIN calls : calls[i] # "create"
        /\ (/\ pc = "done"
            /\ sendFailures = 0
            /\ reply.msg # "failed to create Docker client")
           => reply.isError /\ reply.msg \in ConfigInvalidMessages

\* C10: when a run has returned, the temporary directory it created (tmpDir
\* of runInDocker, artifactsDir of runProjectInDocker) does not exist.
C10_EphemeralDirsRemoved ==
    /\ (request.tool = "run_code" /\ wpc \in {"returned", "exited"}) => tmpDir # "exists"
    /\ (request.tool = "run_project" /\ pc \in {"reply", "done"}) => artifactsDir # "exists"


-----------------------------------------------------------------------------
(* Provisioning failures and the order of wait, logs and collection. *)

ProvisionFailedMessages == {"failed to create container", "failed to start container"}

\* The backend calls made after the container start.
AfterStartCalls == {"wait", "logs", "collect"}

CallsMade == {calls[i] : i \in DOMAIN calls}

\* C11: when ContainerCreate or ContainerStart fails, the temporary directory
\* of the run is gone by the time the error is returned, and the run has
\* neither waited for the container, nor fetched logs, nor collected
\* artifacts; the reply to the caller is an error.
C11_ProvisionFailureCleansUp ==
    /\ (ret.kind = "result" /\ ret.err \in ProvisionFailedMessages)
           => /\ tmpDir # "exists"
              /\ artifactsDir # "exists"
              /\ artifactFiles = <<>>
              /\ CallsMade \cap AfterStartCalls = {}
    /\ (reply.kind # "none" /\ ret.kind = "result" /\ ret.err \in ProvisionFailedMessages)
           => reply.isError

\* A run of each tool whose container start failed after the temporary
\* directory had been created.
C11_Witness ==
    /\ ret.kind = "result"
    /\ ret.err = "failed to start container"
    /\ \/ request.tool = "run_code" /\ tmpDir = "removed"
       \/ request.tool = "run_project" /\ artifactsDir = "removed"
    /\ reply.kind # "none"

\* C12: runInDocker calls ContainerLogs only after ContainerWait has
\* delivered a status, which the backend does once the container is no
\* longer running.
C12_LogsAfterWait ==
    \A i \in DOMAIN calls :
        calls[i] = "logs"
            => /\ \E j \in 1..(i - 1) : calls[j] = "wait"
               /\ waitResult = "status"
               /\ container = "exited"

\* The logs of an exited container were fetched.
C12_Witness ==
    /\ request.tool = "run_code"
    /\ "logs" \in CallsMade
    /\ logs # NoLogs

\* C13: in both tools CollectArtifactsFromDir is called only after the
\* termination of the container has been observed (ContainerWait delivered a
\* status).
C13_CollectAfterTermination ==
    "collect" \in CallsMade => waitResult = "status" /\ container = "exited"


-----------------------------------------------------------------------------
(* The resources package on its own: any sequence of collections, fetches,  *)
(* listings and purges, with no request being handled.                      *)

\* Container ids, one a prefix of the other.
ContainerIDs == {"c1", "c10"}

\* Listings of an artifacts directory: empty, one file, and two files with a
\* subdirectory between them; result.png has two contents.
Listings ==
    {<<>>,
     <<RegularFile("result.png", "y")>>,
     <<RegularFile("result.png", "x"), Directory("plots"),
       RegularFile("data.csv", "y")>>}

EntryNames == {"result.png", "plots", "data.csv"}

\* targetPath: none, or the destination directory.
TargetPaths == {"", "/out"}

\* URIs a client fetches: every id and name, and a bare registry key.
FetchURIs ==
    {ArtifactURI(id, name) : id \in ContainerIDs, name \in EntryNames}
    \cup {RegistryKey("c1", "result.png")}

\* Prefixes a client lists by.
ListPrefixes ==
    {"artifacts://" \o id \o "/" : id \in ContainerIDs} \cup {"artifacts://", "artifacts://c1"}

\* Paths given to CleanupArtifact.
CleanupPaths ==
    {PersistentPath(id, name) : id \in ContainerIDs, name \in {"result.png", "data.csv"}}
    \cup {ContainerDir("c1"), "/tmp/other"}

\* No request is being handled.
NoRequest ==
    [tool |-> "none", token |-> NoToken, language |-> "python", badArg |-> "none",
     outputPath |-> ""]

InitArtifacts ==
    /\ request = NoRequest
    /\ pc = "idle"
    /\ wpc = "idle"
    /\ resultCh = <<>>
    /\ ret = NoResult
    /\ progress = 0
    /\ polls = 0
    /\ sent = <<>>
    /\ sendFailures = 0
    /\ reply = NoReply
    /\ crashed = FALSE
    /\ container = "none"
    /\ calls = <<>>
    /\ waitResult = "none"
    /\ logs = NoLogs
    /\ tmpDir = "absent"
    /\ artifactsDir = "absent"
    /\ outputDir = "absent"
    /\ artifactFiles = <<>>
    /\ artifactsRegistry = <<>>
    /\ persistentStore = <<>>
    /\ outputFiles = <<>>
    /\ lastOp = NoOp
    /\ harvested = <<>>
    /\ collectors = <<>>
    /\ deps = NoDeps
    /\ userArtifactsDir = ""
    /\ binds = <<>>
    /\ userFiles = <<>>

runVars ==
    <<request, pc, wpc, resultCh, ret, progress, polls, sent, sendFailures, reply,
      crashed, container, calls, waitResult, logs, tmpDir, artifactsDir, artifactFiles,
      collectors, deps, sandboxVars>>

\* A call of the package starts when the client has taken the result of the
\* call before, and a behaviour makes at most MaxCalls calls.
CanCall == lastOp.op = "none" /\ lastOp.n < MaxCalls

\* CollectArtifactsFromDir(containerID, artifactsDir, targetPath), with the
\* listing of artifactsDir and the failing file operations as inputs.
Collect_Call ==
    /\ CanCall
    /\ \E containerID \in ContainerIDs, files \in Listings, targetPath \in TargetPaths :
         \E faults \in FaultSets(files, targetPath, MaxFaults - lastOp.faulted) :
           \E r \in {Collected(containerID, files, targetPath, faults)} :
             /\ ApplyCollect(containerID, files, r)
             /\ outputDir' = r.outputDir
             /\ outputFiles' = r.outputFiles
             /\ lastOp' = [op |-> "collect", n |-> lastOp.n + 1,
                           faulted |-> lastOp.faulted + Cardinality(faults),
                           inputs |-> <<containerID, files, targetPath, faults>>,
                           uris |-> r.uris, err |-> r.err, repeated |-> FALSE]
             /\ UNCHANGED runVars

\* The same CollectArtifactsFromDir once more, right after its first run: the
\* same container id, the same unchanged directory, the same targetPath, and
\* the same file operations failing as in the first run.
Collect_Again ==
    /\ lastOp.op = "collect" /\ lastOp.n < MaxCalls
    /\ \E r \in {Collected(lastOp.inputs[1], lastOp.inputs[2], lastOp.inputs[3],
                           lastOp.inputs[4])} :
         /\ ApplyCollect(lastOp.inputs[1], lastOp.inputs[2], r)
         /\ outputDir' = r.outputDir
         /\ outputFiles' = r.outputFiles
         /\ lastOp' = [op |-> "collect", n |-> lastOp.n + 1, faulted |-> lastOp.faulted,
                       inputs |-> lastOp.inputs,
                       uris |-> r.uris, err |-> r.err, repeated |-> TRUE]
         /\ UNCHANGED runVars

\* GetContainerArtifact(ctx, request) for a URI.
Get_Call ==
    /\ CanCall
    /\ \E uri \in FetchURIs :
         /\ lastOp' = [op |-> "get", n |-> lastOp.n + 1, faulted |-> lastOp.faulted,
                       uri |-> uri,
                       contents |-> GetContainerArtifact(uri, artifactsRegistry,
                                                         persistentStore)]
         /\ UNCHANGED <<artifactsRegistry, persistentStore, outputDir, outputFiles,
                        harvested>>
         /\ UNCHANGED runVars

\* ListContainerArtifacts(ctx, prefix).
List_Call ==
    /\ CanCall
    /\ \E prefix \in ListPrefixes :
         /\ lastOp' = [op |-> "list", n |-> lastOp.n + 1, faulted |-> lastOp.faulted,
                       prefix |-> prefix,
                       resources |-> ListContainerArtifacts(prefix, artifactsRegistry)]
         /\ UNCHANGED <<artifactsRegistry, persistentStore, outputDir, outputFiles,
                        harvested>>
         /\ UNCHANGED runVars

\* CleanupArtifact(artifactPath); os.Remove may fail.
Cleanup_Call ==
    /\ CanCall
    /\ \E artifactPath \in CleanupPaths,
          faults \in SubsetsUpTo({Fault("remove", "")}, MaxFaults - lastOp.faulted) :
         \E r \in {CleanupArtifact(artifactPath, artifactsRegistry, persistentStore,
                                   faults)} :
           /\ artifactsRegistry' = r.registry
           /\ persistentStore' = r.store
           /\ harvested' = Drop(harvested, (DOMAIN artifactsRegistry) \ DOMAIN r.registry)
           /\ lastOp' = [op |-> "cleanup", n |-> lastOp.n + 1,
                         faulted |-> lastOp.faulted + Cardinality(faults),
                         path |-> artifactPath, faults |-> faults]
           /\ UNCHANGED <<outputDir, outputFiles>>
           /\ UNCHANGED runVars

\* The client has taken the result of the call.
Call_Return ==
    /\ lastOp.op # "none"
    /\ lastOp' = [op |-> "none", n |-> lastOp.n, faulted |-> lastOp.faulted]
    /\ UNCHANGED <<artifactsRegistry, persistentStore, outputDir, outputFiles, harvested>>
    /\ UNCHANGED runVars

NextArtifacts ==
    \/ Collect_Call
    \/ Collect_Again
    \/ Get_Call
    \/ List_Call
    \/ Cleanup_Call
    \/ Call_Return

SpecArtifacts == InitArtifacts /\ [][NextArtifacts]_vars


-----------------------------------------------------------------------------
(* The artifact store: round trip, frame and failure properties.            *)

\* The inputs of the last call, when it was a collection.
LastContainerID == lastOp.inputs[1]
LastFiles == lastOp.inputs[2]
LastTargetPath == lastOp.inputs[3]
LastFaults == lastOp.inputs[4]

\* The faults that make the whole collection fail.
DirectoryFaults == {Fault("readDir", ""), Fault("mkdir", "")}

\* The faults of the durable copy of a file, and those of its copy to
\* targetPath.
DurableFaults(name) == {Fault(op, name) : op \in {"read", "writeOpen", "writeShort"}}
TargetFaults(name) ==
    {Fault(op, name) : op \in {"mkdirTarget", "writeTargetOpen", "writeTargetShort"}}

\* C14: every URI a collection has returned can be fetched afterwards, as
\* long as its artifact was not purged and no later collection failed while
\* overwriting its durable copy: GetContainerArtifact succeeds and returns
\* the bytes the file had when it was harvested. The fetch reads the
\* registry and the durable store only, not the directory of the run.
C14_RoundTrip ==
    /\ \A key \in DOMAIN harvested :
         LET got == GetContainerArtifact("artifacts://" \o key, artifactsRegistry,
                                         persistentStore)
         IN  got.err = NoErr /\ got.text = harvested[key]
    /\ (lastOp.op = "get" /\ TrimPrefix(lastOp.uri, "artifacts://") \in DOMAIN harvested)
           => /\ lastOp.contents.err = NoErr
              /\ lastOp.contents.text = harvested[TrimPrefix(lastOp.uri, "artifacts://")]

\* result.png of c1 was fetched after a later collection for c10 had
\* harvested a result.png with other bytes.
C14_Witness ==
    /\ lastOp.op = "get"
    /\ lastOp.uri = ArtifactURI("c1", "result.png")
    /\ lastOp.contents.err = NoErr
    /\ lastOp.contents.text = "x"
    /\ RegistryKey("c10", "result.png") \in DOMAIN harvested
    /\ harvested[RegistryKey("c10", "result.png")] = "y"

\* C15: CollectArtifactsFromDir on a directory that lists as empty returns
\* no URI and no error and writes nothing: the registry, the durable store
\* and the destination directory are as before.
C15_EmptyDirectoryNoWrites ==
    [][(/\ lastOp'.op = "collect"
        /\ lastOp'.n # lastOp.n
        /\ lastOp'.inputs[2] = <<>>
        /\ Fault("readDir", "") \notin lastOp'.inputs[4])
          => /\ lastOp'.uris = <<>>
             /\ lastOp'.err = NoErr
             /\ UNCHANGED <<artifactsRegistry, persistentStore, outputDir, outputFiles>>]_vars

\* An empty directory was collected with a destination, while the registry
\* held artifacts and the destination directory did not exist.
C15_Witness ==
    /\ lastOp.op = "collect"
    /\ LastFiles = <<>>
    /\ LastTargetPath = "/out"
    /\ LastFaults = {}
    /\ lastOp.err = NoErr
    /\ artifactsRegistry # <<>>
    /\ outputDir = "absent"

\* C16: when reading a file or writing its durable copy fails, the
\* collection returns no error, that file is not returned and its registry
\* entry is left as it was, and every other regular file of the directory is
\* written to the durable store, registered and returned.
C16_FailedFileSkipped ==
    [][(/\ lastOp'.op = "collect"
        /\ lastOp'.n # lastOp.n
        /\ lastOp'.inputs[4] \cap DirectoryFaults = {})
          => LET containerID == lastOp'.inputs[1]
                 files == lastOp'.inputs[2]
                 faults == lastOp'.inputs[4]
             IN  /\ lastOp'.err = NoErr
                 /\ \A i \in DOMAIN files :
                      LET name == files[i].name
                          key == RegistryKey(containerID, name)
                          uri == ArtifactURI(containerID, name)
                      IN  IF files[i].isDir THEN TRUE
                          ELSE IF faults \cap DurableFaults(name) # {}
                          THEN /\ uri \notin Range(lastOp'.uris)
                               /\ key \in DOMAIN artifactsRegistry'
                                      <=> key \in DOMAIN artifactsRegistry
                               /\ key \in DOMAIN artifactsRegistry
                                      => artifactsRegistry'[key] = artifactsRegistry[key]
                          ELSE /\ uri \in Range(lastOp'.uris)
                               /\ key \in DOMAIN artifactsRegistry'
                               /\ artifactsRegistry'[key] = PersistentPath(containerID, name)
                               /\ PersistentPath(containerID, name) \in DOMAIN persistentStore'
                               /\ persistentStore'[PersistentPath(containerID, name)]
                                      = files[i].data]_vars

\* The durable write of result.png failed in a collection of two files, and
\* data.csv alone was returned.
C16_Witness ==
    /\ lastOp.op = "collect"
    /\ Len(LastFiles) = 3
    /\ LastFaults = {Fault("writeOpen", "result.png")}
    /\ lastOp.err = NoErr
    /\ lastOp.uris = <<ArtifactURI(LastContainerID, "data.csv")>>
    /\ RegistryKey(LastContainerID, "result.png") \notin DOMAIN artifactsRegistry

\* C17: with a targetPath whose creation or whose file write fails, the
\* collection returns what it returns without a targetPath, and leaves the
\* registry and the durable store as the collection without a targetPath
\* does: the file is registered and its URI returned.
C17_TargetFailureNotFatal ==
    [][(/\ lastOp'.op = "collect"
        /\ lastOp'.n # lastOp.n
        /\ lastOp'.inputs[3] # ""
        /\ \E name \in EntryNames : lastOp'.inputs[4] \cap TargetFaults(name) # {})
          => LET targetFaults == UNION {TargetFaults(name) : name \in EntryNames}
                 plain == Collected(lastOp'.inputs[1], lastOp'.inputs[2], "",
                                    lastOp'.inputs[4] \ targetFaults)
             IN  /\ lastOp'.uris = plain.uris
                 /\ lastOp'.err = plain.err
                 /\ artifactsRegistry' = plain.registry
                 /\ persistentStore' = plain.store]_vars

\* The destination directory could not be created, and result.png was
\* registered and returned all the same.
C17_Witness ==
    /\ lastOp.op = "collect"
    /\ LastTargetPath = "/out"
    /\ LastFaults = {Fault("mkdirTarget", "result.png")}
    /\ lastOp.uris = <<ArtifactURI(LastContainerID, "result.png")>>
    /\ RegistryKey(LastContainerID, "result.png") \in DOMAIN artifactsRegistry
    /\ "result.png" \notin DOMAIN outputFiles


\* C18: GetContainerArtifact for a URI whose key is not in the registry
\* returns the error "artifact not found", and the registry and the durable
\* store are as before.
C18_UnknownKeyNotFound ==
    [][(/\ lastOp'.op = "get"
        /\ lastOp'.n # lastOp.n
        /\ TrimPrefix(lastOp'.uri, "artifacts://") \notin DOMAIN artifactsRegistry)
          => /\ lastOp'.contents.err = "artifact not found"
             /\ lastOp'.contents.text = NoContents
             /\ UNCHANGED <<artifactsRegistry, persistentStore>>]_vars

\* data.csv of c10 was fetched while the registry held only artifacts of c1.
C18_Witness ==
    /\ lastOp.op = "get"
    /\ lastOp.uri = ArtifactURI("c10", "data.csv")
    /\ lastOp.contents.err = "artifact not found"
    /\ RegistryKey("c1", "data.csv") \in DOMAIN artifactsRegistry
    /\ RegistryKey("c10", "data.csv") \notin DOMAIN artifactsRegistry

\* The keys the registry holds for a container id.
KeysOf(containerID) ==
    {RegistryKey(containerID, name) : name \in EntryNames} \cap DOMAIN artifactsRegistry

\* C19: ListContainerArtifacts with the prefix artifacts://<id>/ returns one
\* resource for each key registered for <id>, with its URI, file name and
\* container id, and no resource of another id.
C19_ListByContainer ==
    \A id \in ContainerIDs :
        (lastOp.op = "list" /\ lastOp.prefix = "artifacts://" \o id \o "/")
            => /\ {r.uri : r \in lastOp.resources} = {"artifacts://" \o key : key \in KeysOf(id)}
               /\ Cardinality(lastOp.resources) = Cardinality(KeysOf(id))
               /\ \A r \in lastOp.resources :
                      /\ r.container = id
                      /\ r.uri = ArtifactURI(id, r.name)

\* The artifacts of c1 were listed while the registry held artifacts of c1
\* and of c10.
C19_Witness ==
    /\ lastOp.op = "list"
    /\ lastOp.prefix = "artifacts://c1/"
    /\ Cardinality(lastOp.resources) = 2
    /\ KeysOf("c10") # {}

\* C20: a second CollectArtifactsFromDir with the same container id, the
\* same listing, the same targetPath and the same outcomes of the file
\* operations returns what the first one returned and changes neither the
\* registry nor the durable store nor the destination directory.
C20_CollectIdempotent ==
    [][(/\ lastOp.op = "collect"
        /\ lastOp'.op = "collect"
        /\ lastOp'.repeated
        /\ lastOp'.n # lastOp.n
        /\ lastOp'.inputs = lastOp.inputs)
          => /\ lastOp'.uris = lastOp.uris
             /\ lastOp'.err = lastOp.err
             /\ UNCHANGED <<artifactsRegistry, persistentStore, outputDir, outputFiles,
                            harvested>>]_vars

\* The directory with two files was collected twice in a row without a
\* failure.
C20_Witness ==
    /\ lastOp.op = "collect"
    /\ lastOp.repeated
    /\ LastFaults = {}
    /\ Len(lastOp.uris) = 2


\* C21: a step that is not a CleanupArtifact call (a collection, a fetch, a
\* listing, the return of a call) removes no entry of the registry and
\* leaves the durable path of every entry as it was; only CleanupArtifact
\* removes entries.
C21_RegistryEntriesStable ==
    [][lastOp'.op # "cleanup"
          => \A key \in DOMAIN artifactsRegistry :
                 /\ key \in DOMAIN artifactsRegistry'
                 /\ artifactsRegistry'[key] = artifactsRegistry[key]]_vars

\* A collection for c10 has registered a file while the entries of an
\* earlier collection for c1 are in the registry.
C21_Witness ==
    /\ lastOp.op = "collect"
    /\ LastContainerID = "c10"
    /\ Len(lastOp.uris) >= 1
    /\ KeysOf("c1") # {}
    /\ KeysOf("c10") # {}


-----------------------------------------------------------------------------
(* Concurrent collections. Each run_code request runs runInDocker, and with  *)
(* it CollectArtifactsFromDir, on a goroutine of its own (part_000, 88-96), *)
(* so two requests being served at the same time have two goroutines        *)
(* inside the collector. Their durable directories differ with the          *)
(* container id; artifactsRegistry is one Go map of the process, assigned   *)
(* to without any lock (container_artifacts.go, 14 and 34). An assignment   *)
(* to a Go map is not atomic: two assignments that overlap are a data race, *)
(* after which the runtime either stops the process ("fatal error:          *)
(* concurrent map writes"), or the write goes through, or it is lost.       *)

\* What ends an assignment that overlapped another one.
RaceOutcomes == {"fatal", "stored", "lost"}

\* A goroutine that has just entered CollectArtifactsFromDir(id, dir, "").
NewCollector(files) ==
    [files |-> files, phase |-> "readDir", i |-> 1, uris |-> <<>>, raced |-> FALSE]

InitConcurrent ==
    /\ request = NoRequest
    /\ pc = "idle"
    /\ wpc = "idle"
    /\ resultCh = <<>>
    /\ ret = NoResult
    /\ progress = 0
    /\ polls = 0
    /\ sent = <<>>
    /\ sendFailures = 0
    /\ reply = NoReply
    /\ crashed = FALSE
    /\ container = "none"
    /\ calls = <<>>
    /\ waitResult = "none"
    /\ logs = NoLogs
    /\ tmpDir = "absent"
    /\ artifactsDir = "absent"
    /\ outputDir = "absent"
    /\ artifactFiles = <<>>
    /\ artifactsRegistry = <<>>
    /\ persistentStore = <<>>
    /\ outputFiles = <<>>
    /\ lastOp = NoOp
    /\ harvested = <<>>
    /\ collectors \in [ContainerIDs -> {NewCollector(files) : files \in Listings}]
    /\ deps = NoDeps
    /\ userArtifactsDir = ""
    /\ binds = <<>>
    /\ userFiles = <<>>

\* What the collectors leave alone.
collectorFrame ==
    <<request, pc, wpc, resultCh, ret, progress, polls, sent, sendFailures, reply,
      container, calls, waitResult, logs, tmpDir, artifactsDir, outputDir,
      artifactFiles, outputFiles, lastOp, harvested, deps, sandboxVars>>

\* Lines 140-155: the listing; an empty one returns at once, otherwise the
\* container directory is created.
Collector_ReadDir(id) ==
    /\ ~crashed
    /\ collectors[id].phase = "readDir"
    /\ IF Len(collectors[id].files) = 0
       THEN /\ collectors' = [collectors EXCEPT ![id].phase = "done"]
            /\ UNCHANGED persistentStore
       ELSE /\ collectors' = [collectors EXCEPT ![id].phase = "loop"]
            /\ persistentStore' = Put(persistentStore, ContainerDir(id), DirMark)
    /\ UNCHANGED <<artifactsRegistry, crashed>>
    /\ UNCHANGED collectorFrame

\* Lines 158-178: the next entry; a directory is skipped, a file is read
\* and written to the durable directory of the container.
Collector_CopyFile(id) ==
    /\ ~crashed
    /\ collectors[id].phase = "loop"
    /\ collectors[id].i <= Len(collectors[id].files)
    /\ LET entry == collectors[id].files[collectors[id].i]
       IN  IF entry.isDir
           THEN /\ collectors' = [collectors EXCEPT ![id].i = @ + 1]
                /\ UNCHANGED persistentStore
           ELSE /\ collectors' = [collectors EXCEPT ![id].phase = "register"]
                /\ persistentStore' =
                       Put(persistentStore, PersistentPath(id, entry.name), entry.data)
    /\ UNCHANGED <<artifactsRegistry, crashed>>
    /\ UNCHANGED collectorFrame

\* Line 34, artifactsRegistry[key] = path begins. If another goroutine is
\* inside an assignment to the map, the two assignments race.
Collector_AssignBegin(id) ==
    /\ ~crashed
    /\ collectors[id].phase = "register"
    /\ LET overlap == \E other \in ContainerIDs \ {id} :
                          collectors[other].phase = "assigning"
       IN  collectors' =
               [c \in ContainerIDs |->
                   IF c = id
                   THEN [collectors[c] EXCEPT !.phase = "assigning", !.raced = overlap]
                   ELSE IF collectors[c].phase = "assigning"
                        THEN [collectors[c] EXCEPT !.raced = TRUE]
                        ELSE collectors[c]]
    /\ UNCHANGED <<artifactsRegistry, persistentStore, crashed>>
    /\ UNCHANGED collectorFrame

\* Line 34 ends, and lines 211-213: the URI is appended. An assignment that
\* raced ends in one of RaceOutcomes.
Collector_AssignEnd(id) ==
    /\ ~crashed
    /\ collectors[id].phase = "assigning"
    /\ LET entry == collectors[id].files[collectors[id].i]
           registered ==
               RegisterArtifact(artifactsRegistry, id, entry.name,
                                PersistentPath(id, entry.name))
           next == [collectors EXCEPT
                       ![id].phase = "loop", ![id].i = @ + 1, ![id].raced = FALSE,
                       ![id].uris = Append(@, ArtifactURI(id, entry.name))]
       IN  \E outcome \in IF collectors[id].raced THEN RaceOutcomes ELSE {"stored"} :
             CASE outcome = "fatal" ->
                    /\ crashed' = TRUE
                    /\ UNCHANGED <<collectors, artifactsRegistry>>
               [] outcome = "stored" ->
                    /\ artifactsRegistry' = registered
                    /\ collectors' = next
                    /\ UNCHANGED crashed
               [] outcome = "lost" ->
                    /\ collectors' = next
                    /\ UNCHANGED <<artifactsRegistry, crashed>>
    /\ UNCHANGED persistentStore
    /\ UNCHANGED collectorFrame

\* Line 216: the loop is over, the URIs are returned.
Collector_Return(id) ==
    /\ ~crashed
    /\ collectors[id].phase = "loop"
    /\ collectors[id].i > Len(collectors[id].files)
    /\ collectors' = [collectors EXCEPT ![id].phase = "done"]
    /\ UNCHANGED <<artifactsRegistry, persistentStore, crashed>>
    /\ UNCHANGED collectorFrame

NextConcurrent ==
    \/ \E id \in ContainerIDs : Collector_ReadDir(id)
    \/ \E id \in ContainerIDs : Collector_CopyFile(id)
    \/ \E id \in ContainerIDs : Collector_AssignBegin(id)
    \/ \E id \in ContainerIDs : Collector_AssignEnd(id)
    \/ \E id \in ContainerIDs : Collector_Return(id)

SpecConcurrent == InitConcurrent /\ [][NextConcurrent]_vars

\* What CollectArtifactsFromDir(id, dir, "") returns and registers when no
\* other collection runs and no file operation fails.
Alone(id) ==
    CollectArtifactsFromDir(
        id, collectors[id].files, "",
        [registry |-> <<>>, store |-> <<>>, outputDir |-> "absent", outputFiles |-> <<>>],
        {})

\* C22: two collections running at the same time for c1 and c10 are
\* independent: the process survives every interleaving, and each
\* collection that has returned has returned the URIs it returns when run
\* alone, with every registry entry it makes when run alone in the registry.
C22_ConcurrentCollectionsIndependent ==
    /\ ~crashed
    /\ \A id \in ContainerIDs :
         collectors[id].phase = "done"
            => /\ collectors[id].uris = Alone(id).uris
               /\ \A key \in DOMAIN Alone(id).registry :
                      /\ key \in DOMAIN artifactsRegistry
                      /\ artifactsRegistry[key] = Alone(id).registry[key]


-----------------------------------------------------------------------------
(* Dependency resolution and command composition: text helpers.             *)

\* strings.TrimSpace on text whose white space is blanks and tabs.
IsSpace(c) == c \in {" ", "\t", "\r"}

RECURSIVE TrimLeft(_)
TrimLeft(s) ==
    IF s = "" THEN ""
    ELSE IF IsSpace(SubSeq(s, 1, 1)) THEN TrimLeft(SubSeq(s, 2, Len(s)))
    ELSE s

RECURSIVE TrimRight(_)
TrimRight(s) ==
    IF s = "" THEN ""
    ELSE IF IsSpace(SubSeq(s, Len(s), Len(s))) THEN TrimRight(SubSeq(s, 1, Len(s) - 1))
    ELSE s

TrimSpace(s) == TrimRight(TrimLeft(s))

\* strings.Split(s, sep) for a separator of one character.
RECURSIVE Split(_, _)
Split(s, sep) ==
    IF Positions(s, sep) = {} THEN <<s>>
    ELSE LET at == Lowest(Positions(s, sep))
         IN  <<SubSeq(s, 1, at - 1)>> \o Split(SubSeq(s, at + 1, Len(s)), sep)

\* strings.Join(elems, sep).
RECURSIVE Join(_, _)
Join(elems, sep) ==
    IF elems = <<>> THEN ""
    ELSE IF Len(elems) = 1 THEN elems[1]
    ELSE elems[1] \o sep \o Join(Tail(elems), sep)

\* strings.Fields for words separated by single blanks.
Fields(s) == IF TrimSpace(s) = "" THEN <<>> ELSE Split(TrimSpace(s), " ")

HasSuffix(s, suffix) ==
    /\ Len(s) >= Len(suffix)
    /\ SubSeq(s, Len(s) - Len(suffix) + 1, Len(s)) = suffix

\* The sequences that list every element of a finite set once.
RECURSIVE Orders(_)
Orders(set) ==
    IF set = {} THEN {<<>>}
    ELSE UNION {{<<x>> \o rest : rest \in Orders(set \ {x})} : x \in set}


-----------------------------------------------------------------------------
(* The runtime profile table (packages languages and deps).                 *)

\* RunCommand of a language: the command of an inline-code request.
RunCommand(language) ==
    CASE language = "python" -> <<"python3", "main.py">>
      [] language = "go" -> <<"go", "run", "main.go">>
      [] language = "nodejs" -> <<"bun", "run", "main.js">>
      [] OTHER -> <<>>

\* InstallCommand of a language.
InstallCommand(language) ==
    CASE language = "python" -> <<"pip", "install", "-r", "requirements.txt">>
      [] language = "go" -> <<"go", "mod", "download">>
      [] language = "nodejs" -> <<"bun", "install">>
      [] OTHER -> <<>>

\* DependencyFiles of a language, the canonical manifest first.
DependencyFiles(language) ==
    CASE language = "python" -> <<"requirements.txt", "pyproject.toml", "setup.py">>
      [] language = "go" -> <<"go.mod">>
      [] language = "nodejs" -> <<"package.json">>
      [] OTHER -> <<>>

-----------------------------------------------------------------------------
(* extractRequirementsFromPythonFiles (part_002, 22-69).                    *)

\* Lines 23 and 46: what the expression ^#\s*requirements:\s*(.+)$ captures
\* on one line, split at the commas (line 50); nothing when the line does not
\* match. (\s also matches a line break; the markers of the modelled files
\* have their list on the same line.)
CapturedItems(line) ==
    IF ~HasPrefix(line, "#") THEN <<>>
    ELSE LET marker == TrimLeft(TrimPrefix(line, "#"))
         IN  IF ~HasPrefix(marker, "requirements:") THEN <<>>
             ELSE IF TrimPrefix(marker, "requirements:") = "" THEN <<>>
             ELSE Split(TrimPrefix(marker, "requirements:"), ",")

\* Lines 51-57: each item is trimmed and appended unless it is empty or was
\* seen before.
RECURSIVE AddRequirements(_, _)
AddRequirements(requirements, items) ==
    IF items = <<>> THEN requirements
    ELSE LET req == TrimSpace(Head(items))
         IN  AddRequirements(
                 IF req # "" /\ req \notin Range(requirements)
                 THEN Append(requirements, req) ELSE requirements,
                 Tail(items))

\* Lines 46-59: all matches of one file, line by line.
RECURSIVE ScanLines(_, _)
ScanLines(requirements, lines) ==
    IF lines = <<>> THEN requirements
    ELSE ScanLines(AddRequirements(requirements, CapturedItems(Head(lines))),
                   Tail(lines))

\* A source tree: the entries below the project root in the order of
\* filepath.Walk, each a file with its text or a directory.
SourceFile(name, text) == [name |-> name, isDir |-> FALSE, data |-> text]

\* Lines 28-62, the callback of filepath.Walk for the entries from the
\* first of entries on: an entry the walk cannot read ends the walk with its
\* error; directories and files that are not *.py are passed over; a file
\* that cannot be read is passed over after a warning.
RECURSIVE WalkEntries(_, _, _)
WalkEntries(requirements, entries, faults) ==
    IF entries = <<>> THEN [reqs |-> requirements, err |-> NoErr]
    ELSE LET entry == Head(entries)
         IN  IF Fault("walk", entry.name) \in faults
             THEN [reqs |-> <<>>, err |-> "walk"]
             ELSE IF entry.isDir \/ ~HasSuffix(ToLower(Base(entry.name)), ".py")
             THEN WalkEntries(requirements, Tail(entries), faults)
             ELSE IF Fault("read", entry.name) \in faults
             THEN WalkEntries(requirements, Tail(entries), faults)
             ELSE WalkEntries(ScanLines(requirements, Split(entry.data, "\n")),
                              Tail(entries), faults)

\* Lines 22-69. The walk starts at the project root, named ".".
extractRequirementsFromPythonFiles(tree, faults) ==
    IF Fault("walk", ".") \in faults THEN [reqs |-> <<>>, err |-> "walk"]
    ELSE WalkEntries(<<>>, tree, faults)

-----------------------------------------------------------------------------
(* runProjectInDocker: the manifest merge and the command (part_002).       *)

\* No file of that name.
Absent == "<absent>"

\* A search that goes through all of DependencyFiles and keeps the last one
\* found.
RECURSIVE FirstDepFile_Last(_, _, _)
FirstDepFile_Last(candidates, present, faults) ==
    IF candidates = <<>> THEN [hasDepFile |-> FALSE, depFile |-> ""]
    ELSE LET last == candidates[Len(candidates)]
         IN  IF last \in present /\ Fault("stat", last) \notin faults
             THEN [hasDepFile |-> TRUE, depFile |-> last]
             ELSE FirstDepFile_Last(SubSeq(candidates, 1, Len(candidates) - 1),
                                    present, faults)

\* Lines 139-150: the first of DependencyFiles that os.Stat finds; a Stat
\* that fails passes the file over.
RECURSIVE FirstDepFile(_, _, _)
FirstDepFile(candidates, present, faults) ==
    IF candidates = <<>> THEN [hasDepFile |-> FALSE, depFile |-> ""]
    ELSE IF Head(candidates) \in present /\ Fault("stat", Head(candidates)) \notin faults
    THEN [hasDepFile |-> TRUE, depFile |-> Head(candidates)]
    ELSE FirstDepFile(Tail(candidates), present, faults)

\* Lines 162-170: the lines of the requirements.txt there is, none when
\* there is no file or it cannot be read.
ExistingReqs(manifest, faults) ==
    IF manifest = Absent \/ Fault("readManifest", "") \in faults THEN <<>>
    ELSE Split(manifest, "\n")

\* A merge in which a discovered specifier takes the place of the existing
\* entries.
MergedRequirements_DiscoveredOnly(existingReqs, reqsFromComments) ==
    Range(reqsFromComments)

\* Lines 172-186: the keys of reqsMap, the trimmed non-empty existing
\* lines and the discovered specifiers that are not among them.
MergedRequirements(existingReqs, reqsFromComments) ==
    {TrimSpace(existingReqs[i]) : i \in {j \in DOMAIN existingReqs :
                                            TrimSpace(existingReqs[j]) # ""}}
    \cup {req \in Range(reqsFromComments) :
             req \notin {TrimSpace(existingReqs[i]) : i \in DOMAIN existingReqs}}

\* Lines 188-194: finalReqs is filled by ranging over the map reqsMap, in
\* the order the Go runtime happens to iterate it, and joined with line
\* breaks.
ManifestContents(reqsMap) == {Join(finalReqs, "\n") : finalReqs \in Orders(reqsMap)}

\* A project command that runs the entrypoint and installs nothing.
runProjectInDocker_Cmd_NoInstall(language, cmd, hasDepFile, depFile) ==
    IF language = "python" THEN <<"/bin/sh", "-c", Join(cmd, " ")>> ELSE cmd

\* Lines 233-265: containerConfig.Cmd; empty when the code leaves it unset.
runProjectInDocker_Cmd(language, cmd, hasDepFile, depFile) ==
    IF hasDepFile
    THEN CASE language = "python" /\ depFile = "requirements.txt" ->
                <<"/bin/sh", "-c",
                  "uv pip install --system -r " \o depFile \o " && " \o Join(cmd, " ")>>
           [] language = "python" /\ depFile \in {"pyproject.toml", "setup.py"} ->
                <<"/bin/sh", "-c", "uv pip install --system . && " \o Join(cmd, " ")>>
           [] language = "go" -> InstallCommand(language) \o cmd
           [] language = "nodejs" -> <<"bun">> \o Tail(cmd)
           [] OTHER -> <<>>
    ELSE IF language = "python" THEN <<"/bin/sh", "-c", Join(cmd, " ")>>
    ELSE cmd

\* An inline-code command that puts an install step before every run.
runInDocker_Cmd_AlwaysInstall(language, cmd, packages) ==
    <<"/bin/sh", "-c",
      "uv pip install --system " \o Join(packages, " ") \o " && " \o Join(cmd, " ")>>

\* part_000, lines 214-227: finalCmd.
runInDocker_Cmd(language, cmd, packages) ==
    IF language = "python" /\ Len(packages) > 0
    THEN <<"/bin/sh", "-c",
           "uv pip install --system " \o Join(packages, " ") \o " && " \o Join(cmd, " ")>>
    ELSE cmd


-----------------------------------------------------------------------------
(* Dependency resolution as a state machine: one behaviour resolves the     *)
(* dependencies of one request and composes the command of its container;   *)
(* a project request may then be resolved a second time.                    *)

\* What the import parser of the language returned for the code of an
\* inline request.
ParsedPackages == {<<>>, <<"pkgA">>, <<"pkgA", "pkgB">>}

\* strings.Fields(entrypoint) of a project request.
Entrypoint(language) ==
    CASE language = "python" -> Fields("python main.py")
      [] language = "go" -> Fields("go run main.go")
      [] OTHER -> Fields("node index.js")

\* Project trees in the order of filepath.Walk.
Trees ==
    {<<SourceFile("main.py", "print(1)")>>,
     <<Directory("artifacts"),
       SourceFile("main.py", "# requirements: requests, flask==2.0\nimport requests")>>,
     <<SourceFile("a.py", "#requirements:pkgA , requests"),
       Directory("lib"),
       SourceFile("lib/B.PY", "# requirements: requests,, pkgB\n# requirements: "),
       SourceFile("notes.txt", "# requirements: evil")>>}

\* The requirements.txt of a project: none, or two entries, one of them
\* surrounded by blanks, and an empty line.
Manifests == {Absent, "pkgA==1.0\n requests \n"}

\* Requests for inline code.
CodeDeps ==
    {[mode |-> "code", language |-> language, cmd |-> RunCommand(language),
      packages |-> packages, present |-> {}, manifest |-> Absent, tree |-> <<>>] :
         language \in AllLanguages, packages \in ParsedPackages}

\* Requests for a project: the manifests other than requirements.txt that
\* the project root holds, its requirements.txt, and its tree.
ProjectDeps ==
    {[mode |-> "project", language |-> "python", cmd |-> Entrypoint("python"),
      packages |-> <<>>, present |-> present, manifest |-> manifest, tree |-> tree] :
         present \in SUBSET {"pyproject.toml"}, manifest \in Manifests, tree \in Trees}
    \cup
    UNION {{[mode |-> "project", language |-> language, cmd |-> Entrypoint(language),
             packages |-> <<>>, present |-> present, manifest |-> Absent,
             tree |-> <<SourceFile("main.py", "# requirements: requests")>>] :
                present \in SUBSET {Head(DependencyFiles(language))}} :
           language \in {"go", "nodejs"}}

\* The state of a resolution that has not begun.
Unresolved ==
    [hasDepFile |-> FALSE, depFile |-> "", statFaults |-> {}, scan |-> "none",
     scanFaults |-> {}, reqs |-> <<>>, readFailed |-> FALSE, wrote |-> "none",
     Cmd |-> <<>>, created |-> FALSE]

InitDeps ==
    /\ request = NoRequest
    /\ pc = "idle"
    /\ wpc = "idle"
    /\ resultCh = <<>>
    /\ ret = NoResult
    /\ progress = 0
    /\ polls = 0
    /\ sent = <<>>
    /\ sendFailures = 0
    /\ reply = NoReply
    /\ crashed = FALSE
    /\ container = "none"
    /\ calls = <<>>
    /\ waitResult = "none"
    /\ logs = NoLogs
    /\ tmpDir = "absent"
    /\ artifactsDir = "absent"
    /\ outputDir = "absent"
    /\ artifactFiles = <<>>
    /\ artifactsRegistry = <<>>
    /\ persistentStore = <<>>
    /\ outputFiles = <<>>
    /\ lastOp = NoOp
    /\ harvested = <<>>
    /\ collectors = <<>>
    /\ userArtifactsDir = ""
    /\ binds = <<>>
    /\ userFiles = <<>>
    /\ \E r \in CodeDeps \cup ProjectDeps :
         deps = [pc |-> IF r.mode = "code" THEN "stage" ELSE "detect",
                 req |-> r, manifest |-> r.manifest, before |-> r.manifest,
                 st |-> Unresolved, faulted |-> 0, run |-> 1, fresh |-> FALSE,
                 first |-> Unresolved, firstManifest |-> Absent]

\* What the resolution leaves alone.
depsFrame ==
    <<request, pc, wpc, resultCh, ret, progress, polls, sent, sendFailures, reply,
      crashed, container, calls, waitResult, logs, tmpDir, artifactsDir, outputDir,
      artifactFiles, artifactsRegistry, persistentStore, outputFiles, lastOp,
      harvested, collectors, sandboxVars>>

\* The file operations that may still fail in this behaviour.
DepsFaultSets(points) == SubsetsUpTo(points, MaxFaults - deps.faulted)

\* The dependency files in the project root.
PresentFiles ==
    deps.req.present \cup (IF deps.manifest = Absent THEN {} ELSE {"requirements.txt"})

\* part_000, lines 191-227: the packages of the code, the requirements.txt
\* of the temporary directory, and finalCmd.
Deps_runInDocker ==
    /\ deps.pc = "stage"
    /\ \E faults \in DepsFaultSets(
                        IF deps.req.language = "python" /\ Len(deps.req.packages) > 0
                        THEN {Fault("writeRequirements", "")} ELSE {}) :
         deps' = [deps EXCEPT
                    !.pc = IF faults = {} THEN "create" ELSE "failed",
                    !.faulted = @ + Cardinality(faults),
                    !.st.Cmd = IF faults = {}
                               THEN runInDocker_Cmd(deps.req.language, deps.req.cmd,
                                                    deps.req.packages)
                               ELSE <<>>]
    /\ UNCHANGED depsFrame

\* part_002, lines 139-154: the search for a dependency file.
Deps_FindDepFile ==
    /\ deps.pc = "detect"
    /\ \E faults \in DepsFaultSets({Fault("stat", file) : file \in PresentFiles}) :
         \E found \in {FirstDepFile(DependencyFiles(deps.req.language), PresentFiles,
                                    faults)} :
           deps' = [deps EXCEPT
                      !.pc = IF /\ deps.req.language = "python"
                                /\ (~found.hasDepFile \/ found.depFile # "requirements.txt")
                             THEN "scan" ELSE "command",
                      !.faulted = @ + Cardinality(faults),
                      !.st.hasDepFile = found.hasDepFile,
                      !.st.depFile = found.depFile,
                      !.st.statFaults = faults]
    /\ UNCHANGED depsFrame

\* The entries of the tree filepath.Walk may fail on, and the files
\* os.ReadFile may fail on.
ScanFaultPoints ==
    {Fault("walk", ".")}
    \cup {Fault("walk", deps.req.tree[i].name) :
             i \in {j \in DOMAIN deps.req.tree : deps.req.tree[j].isDir}}
    \cup {Fault("read", deps.req.tree[i].name) :
             i \in {j \in DOMAIN deps.req.tree :
                       /\ ~deps.req.tree[j].isDir
                       /\ HasSuffix(ToLower(Base(deps.req.tree[j].name)), ".py")}}

\* Lines 154-159: the scan of the Python files; its error is printed as a
\* warning and the function goes on.
Deps_Scan ==
    /\ deps.pc = "scan"
    /\ \E faults \in DepsFaultSets(ScanFaultPoints) :
         \E r \in {extractRequirementsFromPythonFiles(deps.req.tree, faults)} :
           deps' = [deps EXCEPT
                      !.pc = IF r.err = NoErr /\ Len(r.reqs) > 0
                             THEN "materialize" ELSE "command",
                      !.faulted = @ + Cardinality(faults),
                      !.st.scan = IF r.err = NoErr THEN "ok" ELSE "failed",
                      !.st.scanFaults = faults,
                      !.st.reqs = r.reqs]
    /\ UNCHANGED depsFrame

\* Lines 159-203: the discovered specifiers are merged with the
\* requirements.txt there is and written back. A failed os.WriteFile is a
\* warning; it has either changed nothing or left the file truncated.
Deps_Materialize ==
    /\ deps.pc = "materialize"
    /\ \E faults \in DepsFaultSets(
                        (IF deps.manifest = Absent THEN {}
                         ELSE {Fault("readManifest", "")})
                        \cup {Fault("writeManifestOpen", ""),
                              Fault("writeManifestShort", "")}) :
         \E content \in ManifestContents(
                            MergedRequirements(ExistingReqs(deps.manifest, faults),
                                               deps.st.reqs)) :
           LET failed == \E op \in {"writeManifestOpen", "writeManifestShort"} :
                             Fault(op, "") \in faults
           IN  deps' = [deps EXCEPT
                          !.pc = "command",
                          !.faulted = @ + Cardinality(faults),
                          !.manifest =
                              IF Fault("writeManifestOpen", "") \in faults THEN @
                              ELSE IF Fault("writeManifestShort", "") \in faults
                                   THEN Truncated
                              ELSE content,
                          !.st.readFailed = Fault("readManifest", "") \in faults,
                          !.st.wrote = IF failed THEN "failed" ELSE "ok",
                          !.st.hasDepFile = IF failed THEN @ ELSE TRUE,
                          !.st.depFile = IF failed THEN @ ELSE "requirements.txt"]
    /\ UNCHANGED depsFrame

\* Lines 233-265: the command of the container.
Deps_Command ==
    /\ deps.pc = "command"
    /\ deps' = [deps EXCEPT
                  !.pc = "create",
                  !.st.Cmd = runProjectInDocker_Cmd(deps.req.language, deps.req.cmd,
                                                    deps.st.hasDepFile, deps.st.depFile)]
    /\ UNCHANGED depsFrame

\* part_000, lines 229-262, and part_002, lines 267-312: the container is
\* created with the command.
Deps_ContainerCreate ==
    /\ deps.pc = "create"
    /\ deps' = [deps EXCEPT !.pc = "created", !.st.created = TRUE]
    /\ UNCHANGED depsFrame

\* The same project is resolved once more: the directory as the first
\* request left it, or a fresh copy of the project as it was.
Deps_Again ==
    /\ deps.pc = "created"
    /\ deps.req.mode = "project"
    /\ deps.run = 1
    /\ \E fresh \in BOOLEAN :
         deps' = [deps EXCEPT
                    !.pc = "detect",
                    !.run = 2,
                    !.fresh = fresh,
                    !.first = deps.st,
                    !.firstManifest = deps.manifest,
                    !.manifest = IF fresh THEN deps.req.manifest ELSE @,
                    !.before = IF fresh THEN deps.req.manifest ELSE deps.manifest,
                    !.st = Unresolved]
    /\ UNCHANGED depsFrame

NextDeps ==
    \/ Deps_runInDocker
    \/ Deps_FindDepFile
    \/ Deps_Scan
    \/ Deps_Materialize
    \/ Deps_Command
    \/ Deps_ContainerCreate
    \/ Deps_Again

SpecDeps == InitDeps /\ [][NextDeps]_vars


\* The container command has been composed.
CommandComposed == deps.pc \in {"create", "created"}

\* C23: an inline-code request of any language whose packages are none is
\* run with the run command of the profile and nothing else: no shell, no
\* install step.
C23_NoInstallStepWithoutPackages ==
    (/\ deps.pc # "none"
     /\ deps.req.mode = "code"
     /\ CommandComposed
     /\ deps.req.packages = <<>>)
        => deps.st.Cmd = RunCommand(deps.req.language)

\* The container of a Python request without packages has been created.
C23_Witness ==
    /\ deps.pc = "created"
    /\ deps.req.mode = "code"
    /\ deps.req.language = "python"
    /\ deps.req.packages = <<>>
    /\ deps.st.created


\* The non-empty entries of a requirements.txt, without the white space
\* around them.
Entries(manifest) ==
    IF manifest = Absent THEN {}
    ELSE {TrimSpace(line) : line \in Range(Split(manifest, "\n"))} \ {""}

\* C24: when the merge has read the requirements.txt there was and written
\* the merged one, every non-empty entry of the old file is an entry of the
\* new file as it was, next to whatever the comments added; the new file has
\* no entry that is neither an old one nor a discovered one.
C24_ExistingEntriesSurviveMerge ==
    [][(/\ deps.pc = "materialize"
        /\ deps'.pc = "command"
        /\ deps'.st.wrote = "ok"
        /\ ~deps'.st.readFailed)
          => /\ Entries(deps.manifest) \subseteq Entries(deps'.manifest)
             /\ Entries(deps'.manifest) =
                    Entries(deps.manifest) \cup Range(deps.st.reqs)]_vars

\* A requirements.txt with the entry pkgA==1.0 was merged with a discovered
\* pkgA and written back.
C24_Witness ==
    /\ deps.pc = "command"
    /\ deps.st.wrote = "ok"
    /\ ~deps.st.readFailed
    /\ "pkgA==1.0" \in Entries(deps.before)
    /\ "pkgA" \in Range(deps.st.reqs)
    /\ {"pkgA==1.0", "pkgA"} \subseteq Entries(deps.manifest)


\* C25: a Python project without requirements.txt whose scan found at least
\* one specifier, and whose requirements.txt could be written, goes on
\* with a requirements.txt in the project root that holds every discovered
\* specifier, and its container command is the shell line that installs from
\* requirements.txt and, after &&, runs the entrypoint.
C25_CommentsMaterialized ==
    (/\ deps.pc # "none"
     /\ deps.req.mode = "project"
     /\ deps.req.language = "python"
     /\ deps.before = Absent
     /\ deps.st.scan = "ok"
     /\ deps.st.reqs # <<>>
     /\ deps.st.wrote # "failed"
     /\ CommandComposed)
        => /\ deps.manifest # Absent
           /\ Range(deps.st.reqs) \subseteq Entries(deps.manifest)
           /\ deps.st.Cmd =
                  <<"/bin/sh", "-c",
                    "uv pip install --system -r requirements.txt && "
                        \o Join(deps.req.cmd, " ")>>

\* The project whose main.py asks for requests and flask==2.0 has its
\* container, with both specifiers in requirements.txt.
C25_Witness ==
    /\ deps.pc = "created"
    /\ deps.req.mode = "project"
    /\ deps.before = Absent
    /\ deps.st.reqs = <<"requests", "flask==2.0">>
    /\ Entries(deps.manifest) = {"requests", "flask==2.0"}
    /\ deps.st.created


\* C26: when the walk cannot read the project root the request fails and no
\* container command is composed or container created; when a source file
\* cannot be read the scan goes on and finds what the other files declare.
C26_UnreadableRootIsFatal ==
    /\ (/\ deps.pc # "none"
        /\ Fault("walk", ".") \in deps.st.scanFaults)
          => /\ deps.pc \notin {"command", "create", "created"}
             /\ ~deps.st.created
    /\ (/\ deps.pc # "none"
        /\ deps.st.scan # "none"
        /\ deps.st.scanFaults # {}
        /\ \A fault \in deps.st.scanFaults : fault.op = "read")
          => /\ deps.st.scan = "ok"
             /\ deps.st.reqs =
                    extractRequirementsFromPythonFiles(
                        SelectSeq(deps.req.tree,
                                  LAMBDA entry : Fault("read", entry.name)
                                                     \notin deps.st.scanFaults),
                        {}).reqs


\* No element of the sequence occurs twice.
DuplicateFree(seq) == \A i, j \in DOMAIN seq : seq[i] = seq[j] => i = j

\* C27: resolving the same project a second time, on the directory the
\* first resolution left or on a fresh copy of the project, with no file
\* operation failing, gives what the first resolution gave: a scan returns
\* the same specifiers in the same order, each once, and the
\* requirements.txt of the project root has the same content.
C27_ResolverIdempotent ==
    (/\ deps.pc # "none"
     /\ deps.req.mode = "project"
     /\ CommandComposed
     /\ deps.faulted = 0)
        => /\ DuplicateFree(deps.st.reqs)
           /\ deps.manifest # Absent => DuplicateFree(Split(deps.manifest, "\n"))
           /\ deps.run = 2
                 => /\ (deps.st.scan = "ok" /\ deps.first.scan = "ok")
                           => deps.st.reqs = deps.first.reqs
                    /\ deps.manifest = deps.firstManifest


\* The dependency set of the request is not empty: the parser found
\* packages (inline code), or the project has a dependency file.
HasDependencies ==
    IF deps.req.mode = "code" THEN deps.req.packages # <<>> ELSE deps.st.hasDepFile

\* The run step: the words of the run command or the entrypoint.
RunStep == Join(deps.req.cmd, " ")

\* C28: for every language, the command of a request with dependencies is
\* one shell invocation /bin/sh -c "<install-step> && <run-step>".
C28_InstallThenRun ==
    (/\ deps.pc # "none"
     /\ CommandComposed
     /\ HasDependencies)
        => /\ Len(deps.st.Cmd) = 3
           /\ deps.st.Cmd[1] = "/bin/sh"
           /\ deps.st.Cmd[2] = "-c"
           /\ HasSuffix(deps.st.Cmd[3], " && " \o RunStep)
           /\ Len(deps.st.Cmd[3]) > Len(" && " \o RunStep)


\* The canonical manifest of the language: the first of DependencyFiles.
CanonicalManifest == Head(DependencyFiles(deps.req.language))

\* The canonical manifest was in the project root when this resolution
\* began, and os.Stat did not fail on it.
CanonicalManifestFound ==
    /\ CanonicalManifest \in
           deps.req.present
           \cup (IF deps.before = Absent THEN {} ELSE {"requirements.txt"})
    /\ Fault("stat", CanonicalManifest) \notin deps.st.statFaults

\* C29: a project whose canonical manifest is in the project root is
\* resolved without a scan of its source files and without a write to
\* requirements.txt: the file is at every moment what it was before, and the
\* command installs from it.
C29_CanonicalManifestUsedAsIs ==
    (/\ deps.pc # "none"
     /\ deps.req.mode = "project"
     /\ CanonicalManifestFound)
        => /\ deps.st.scan = "none"
           /\ deps.st.wrote = "none"
           /\ deps.manifest = deps.before
           /\ deps.pc \notin {"scan", "materialize"}
           /\ deps.pc \in {"command", "create", "created"}
                 => /\ deps.st.hasDepFile
                    /\ deps.st.depFile = CanonicalManifest

\* A Python project with a requirements.txt, a pyproject.toml and
\* requirements comments in its sources has its container; requirements.txt
\* is what it was.
C29_Witness ==
    /\ deps.pc = "created"
    /\ deps.req.mode = "project"
    /\ deps.req.language = "python"
    /\ deps.before = "pkgA==1.0\n requests \n"
    /\ deps.req.present = {"pyproject.toml"}
    /\ Len(deps.req.tree) = 4
    /\ deps.manifest = deps.before
    /\ deps.st.statFaults = {}
    /\ deps.st.Cmd[3] = "uv pip install --system -r requirements.txt && python main.py"


-----------------------------------------------------------------------------
(* The coordinator under fair scheduling: the Go scheduler runs a goroutine  *)
(* that can run, so the sleep of the poll loop ends (time.Sleep returns      *)
(* after two seconds) and a select with a value on resultCh takes it.       *)
(* Nothing is assumed of the goroutine of runInDocker: the backend may keep  *)
(* it waiting forever. The requests are the run_code requests.              *)
InitRunCode == Init /\ request.tool = "run_code"

\* The steps of a run_code request: the coordinator, the goroutine of
\* runInDocker and the container. The poll loop is followed for
\* MaxFairPolls notifications.
NextRunCode ==
    \/ RunCodeSandbox_Begin
    \/ RunCodeSandbox_Notify
    \/ RunCodeSandbox_Launch
    \/ RunCodeSandbox_Receive
    \/ (polls < MaxFairPolls /\ RunCodeSandbox_Default)
    \/ RunCodeSandbox_Poll
    \/ RunCodeSandbox_Send
    \/ runInDocker_NewClient
    \/ runInDocker_ImagePull
    \/ runInDocker_MkdirTemp
    \/ runInDocker_Stage
    \/ runInDocker_ContainerCreate
    \/ runInDocker_ContainerStart
    \/ runInDocker_WaitStatus
    \/ runInDocker_WaitError
    \/ runInDocker_ContainerLogs
    \/ runInDocker_Collect
    \/ Container_Write
    \/ Container_Exit

SpecFair ==
    /\ InitRunCode
    /\ [][NextRunCode]_vars
    /\ WF_vars(RunCodeSandbox_Poll)
    /\ WF_vars(RunCodeSandbox_Receive)

\* The coordinator is in its poll loop.
InPollLoop == request.tool = "run_code" /\ pc \in {"select", "sleep"}

\* The final notification has been handed to the transport.
TerminalEmitted ==
    \E i \in DOMAIN sent : sent[i].by = "final" /\ sent[i].progress = Terminal

\* C30: from the poll loop the coordinator returns in one way only, by
\* taking the worker's result from resultCh and replying with it (while the
\* channel is empty no step of the coordinator returns: there is no timeout
\* and no cancellation); and once the worker has put its result on the
\* channel the coordinator eventually returns, after the terminal
\* notification if the request has a progress token.
C30_ReturnsOnlyAndEventuallyOnResult ==
    /\ [][(InPollLoop /\ (pc' = "done" \/ reply' # reply))
             => /\ resultCh # <<>>
                /\ resultCh' = <<>>
                /\ reply' = RunCodeReply(Head(resultCh))]_vars
    /\ (InPollLoop /\ resultCh # <<>>)
          ~> (/\ pc = "done"
              /\ reply # NoReply
              /\ request.token # NoToken => TerminalEmitted)

\* After some polls the coordinator has taken the result, sent the terminal
\* notification and returned.
C30_Witness ==
    /\ request.tool = "run_code"
    /\ request.token # NoToken
    /\ polls >= 2
    /\ wpc = "exited"
    /\ pc = "done"
    /\ reply # NoReply
    /\ TerminalEmitted

-----------------------------------------------------------------------------
(* The goroutine of runInDocker step by step: the deferred calls of a        *)
(* return after the collection are a step of their own, so that the state    *)
(* between the collection and the removal of the temporary directory is      *)
(* visible. The requests are the run_code requests.                          *)

\* A collection whose durable copies are written by a later flush: the URIs
\* are returned and the keys registered, the store is as before the call.
runInDocker_CollectArtifacts_Lazy ==
    /\ ~crashed /\ wpc = "collect"
    /\ calls' = Append(calls, "collect")
    /\ \E r \in {Collected(ContainerID, ReadDir(artifactFiles), request.outputPath, {})} :
         /\ artifactsRegistry' = r.registry
         /\ harvested' = HarvestedAfter(ContainerID, ReadDir(artifactFiles), r)
         /\ outputDir' = r.outputDir
         /\ outputFiles' = r.outputFiles
         /\ ret' = Result("", logs, r.uris, NoErr)
    /\ wpc' = "deferred"
    /\ UNCHANGED <<request, pc, resultCh, progress, polls, sent, sendFailures, reply,
                   crashed, container, waitResult, logs, tmpDir, artifactsDir,
                   artifactFiles, persistentStore, lastOp, collectors, deps, sandboxVars>>

\* Lines 310-356: resources.CollectArtifactsFromDir, the direct copy to
\* outputPath and the return statement, which sets the return values; the
\* deferred calls have not run yet.
runInDocker_CollectArtifacts ==
    /\ ~crashed /\ wpc = "collect"
    /\ calls' = Append(calls, "collect")
    /\ \E faults \in FaultSets(ReadDir(artifactFiles), request.outputPath, MaxFaults) :
         \E r \in {Collected(ContainerID, ReadDir(artifactFiles), request.outputPath,
                              faults)} :
             /\ ApplyCollect(ContainerID, ReadDir(artifactFiles), r)
             /\ IF r.err = NoErr
                THEN /\ \E copyFaults \in DirectCopyFaultSets(
                                           request.outputPath, ReadDir(artifactFiles),
                                           MaxFaults - Cardinality(faults)) :
                          LET out == DirectCopy(
                                         request.outputPath, ReadDir(artifactFiles),
                                         [outputDir |-> r.outputDir,
                                          outputFiles |-> r.outputFiles],
                                         copyFaults)
                          IN  /\ outputDir' = out.outputDir
                              /\ outputFiles' = out.outputFiles
                     /\ ret' = Result("", logs, r.uris, NoErr)
                ELSE /\ outputDir' = r.outputDir
                     /\ outputFiles' = r.outputFiles
                     /\ ret' = Result("", logs, <<>>, "failed to collect artifacts")
    /\ wpc' = "deferred"
    /\ UNCHANGED <<request, pc, resultCh, progress, polls, sent, sendFailures, reply,
                   crashed, container, waitResult, logs, tmpDir, artifactsDir,
                   artifactFiles, lastOp, collectors, deps, sandboxVars>>

\* Lines 175-176, 302 and 155, run when the function returns: out.Close(),
\* os.RemoveAll(tmpDir), reader.Close(), cli.Close().
runInDocker_Deferred ==
    /\ ~crashed /\ wpc = "deferred"
    /\ RemoveTmpDir
    /\ wpc' = "returned"
    /\ UNCHANGED <<persistentStore, outputFiles, lastOp, harvested, collectors, deps, sandboxVars>>
    /\ UNCHANGED <<request, pc, resultCh, ret, progress, polls, sent, sendFailures,
                   reply, crashed, container, calls, waitResult, logs, artifactsDir,
                   outputDir, artifactsRegistry>>

\* The steps of a run_code request with the return of runInDocker in two
\* steps.
NextWorker ==
    \/ RunCodeSandbox_Begin
    \/ RunCodeSandbox_Notify
    \/ RunCodeSandbox_Launch
    \/ RunCodeSandbox_Receive
    \/ (polls < MaxFairPolls /\ RunCodeSandbox_Default)
    \/ RunCodeSandbox_Poll
    \/ RunCodeSandbox_Send
    \/ runInDocker_NewClient
    \/ runInDocker_ImagePull
    \/ runInDocker_MkdirTemp
    \/ runInDocker_Stage
    \/ runInDocker_ContainerCreate
    \/ runInDocker_ContainerStart
    \/ runInDocker_WaitStatus
    \/ runInDocker_WaitError
    \/ runInDocker_ContainerLogs
    \/ runInDocker_CollectArtifacts
    \/ runInDocker_Deferred
    \/ Container_Write
    \/ Container_Exit

SpecWorker == InitRunCode /\ [][NextWorker]_vars


\* The backend operations of runInDocker in the order of its text.
BackendOrder == <<"pull", "create", "start", "wait", "logs", "collect">>

\* The goroutine of runInDocker has left the function.
WorkerEnded == wpc \in {"returned", "exited", "panicked"}

PullFailedMessages ==
    {"failed to pull Docker image", "failed to copy Docker image pull output"}

\* C31: the backend operations of a run_code request are made in the order
\* pull, create, start, wait, logs, collect, and the temporary directory is
\* removed after the last of them, when the function returns. Each operation
\* is made only after the one before it succeeded (the directory was staged
\* before the create, the container created before the start, started before
\* the wait, the wait delivered a status before the logs, the logs were read
\* before the collection), and none is made once the function has returned
\* or panicked. A failed pull returns its error with no temporary directory
\* and no container, and the caller is given an error.
C31_BackendOrder ==
    /\ [](/\ Len(calls) <= Len(BackendOrder)
          /\ calls = SubSeq(BackendOrder, 1, Len(calls))
          /\ tmpDir = "removed" => WorkerEnded
          /\ (ret.kind = "result" /\ ret.err \in PullFailedMessages)
                 => /\ calls = <<"pull">>
                    /\ tmpDir = "absent"
                    /\ container = "none"
                    /\ WorkerEnded
                    /\ reply # NoReply => reply = ToolResultError(ret.err))
    /\ [][/\ (calls' # calls)
              => /\ ~WorkerEnded
                 /\ tmpDir # "removed"
                 /\ calls' = Append(calls, BackendOrder[Len(calls) + 1])
                 /\ Len(calls) = 1 => tmpDir = "exists"
                 /\ Len(calls) = 2 => container = "created"
                 /\ Len(calls) = 3 => container \in {"running", "exited"}
                 /\ Len(calls) = 4 => waitResult = "status"
                 /\ Len(calls) = 5 => logs # NoLogs
          /\ (calls = <<>> /\ calls' = <<"pull">> /\ wpc' # "mkdirTemp")
              => /\ wpc' = "returned"
                 /\ ret'.err \in PullFailedMessages
          /\ (tmpDir = "exists" /\ tmpDir' # "exists")
              => /\ tmpDir' = "removed"
                 /\ wpc' \in {"returned", "panicked"}]_vars

\* Two runs: one went through all six operations and removed its directory,
\* the other ended at the failed pull.
C31_Witness ==
    /\ request.tool = "run_code"
    /\ calls = BackendOrder
    /\ tmpDir = "removed"
    /\ wpc = "exited"
    /\ ret.err = NoErr
    /\ reply # NoReply

C31_WitnessPullFailed ==
    /\ request.tool = "run_code"
    /\ ret.kind = "result"
    /\ ret.err = "failed to pull Docker image"
    /\ reply # NoReply


\* The registry key an artifact URI names.
KeyOf(uri) == TrimPrefix(uri, "artifacts://")

\* The durable copy of the file the URI names exists and holds the bytes
\* that were read from the artifacts directory.
DurablyStored(uri) ==
    /\ KeyOf(uri) \in DOMAIN artifactsRegistry
    /\ KeyOf(uri) \in DOMAIN harvested
    /\ artifactsRegistry[KeyOf(uri)] \in DOMAIN persistentStore
    /\ persistentStore[artifactsRegistry[KeyOf(uri)]] = harvested[KeyOf(uri)]
    /\ harvested[KeyOf(uri)] = ArtifactBytes

\* C32: in a run_code request, when the deferred os.RemoveAll(tmpDir) runs,
\* every file whose URI runInDocker returns is already in the durable store,
\* under the path the registry holds for it, with the bytes that were
\* harvested; and it stays so until the request is answered.
C32_DurableBeforeRemoval ==
    /\ [][(tmpDir = "exists" /\ tmpDir' = "removed" /\ ret'.kind = "result")
             => \A i \in DOMAIN ret'.artifacts : DurablyStored(ret'.artifacts[i])]_vars
    /\ [](ret.kind = "result"
             => \A i \in DOMAIN ret.artifacts : DurablyStored(ret.artifacts[i]))

\* The collection has returned the URI of a file and the temporary directory
\* is about to be removed.
C32_Witness ==
    /\ request.tool = "run_code"
    /\ wpc = "deferred"
    /\ tmpDir = "exists"
    /\ artifactFiles # <<>>
    /\ ret.artifacts = <<ArtifactURI(ContainerID, "result.png")>>


-----------------------------------------------------------------------------
(* The result of a collection, the registry and the purge.                   *)

\* The entries of the listing that are regular files whose read and whose
\* durable write did not fail, in the order of the listing.
Harvestable(files, faults) ==
    SelectSeq(files, LAMBDA entry : /\ ~entry.isDir
                                    /\ faults \cap DurableFaults(entry.name) = {})

\* C33: a CollectArtifactsFromDir that returns no error returns, in the
\* order of the directory listing and without duplicates, the URI
\* artifacts://<container id>/<file name> of each regular file that was read
\* and durably written, and nothing else (no subdirectory, no file whose
\* read or durable write failed); and the registry maps the key
\* <container id>/<file name> of each of them to the durable path
\* <durable root>/<container id>/<file name>.
C33_ReturnedURIs ==
    (lastOp.op = "collect" /\ lastOp.err = NoErr)
        => LET kept == Harvestable(LastFiles, LastFaults)
           IN  /\ lastOp.uris =
                      [i \in DOMAIN kept |-> ArtifactURI(LastContainerID, kept[i].name)]
               /\ DuplicateFree(lastOp.uris)
               /\ \A i \in DOMAIN LastFiles :
                      LastFiles[i].isDir
                          => ArtifactURI(LastContainerID, LastFiles[i].name)
                                 \notin Range(lastOp.uris)
               /\ \A i \in DOMAIN kept :
                      LET key == RegistryKey(LastContainerID, kept[i].name)
                      IN  /\ key \in DOMAIN artifactsRegistry
                          /\ artifactsRegistry[key]
                                 = ContainerDir(LastContainerID) \o "/" \o kept[i].name

\* A collection of two files with a subdirectory between them returned the
\* two URIs in the order of the listing.
C33_Witness ==
    /\ lastOp.op = "collect"
    /\ lastOp.err = NoErr
    /\ Len(LastFiles) = 3
    /\ LastFaults = {}
    /\ lastOp.uris = <<ArtifactURI(LastContainerID, "result.png"),
                       ArtifactURI(LastContainerID, "data.csv")>>


-----------------------------------------------------------------------------
(* The mounts of the sandbox of a run_code request, in a process with or     *)
(* without ARTIFACTS_DIR; the executed code may write below /user-artifacts. *)

\* Values of ARTIFACTS_DIR: not set, a directory of its own, and the
\* directory a request names as its outputPath.
UserArtifactsDirs == {"", "/data", "/out"}

InitSandbox ==
    InitOf(RunCodeRequests, UserArtifactsDirs)

\* The host directory bound at /user-artifacts is the request's outputPath
\* or a directory above it.
OutputPathIsUserDir ==
    /\ request.outputPath # ""
    /\ userArtifactsDir # ""
    /\ \/ userArtifactsDir = request.outputPath
       \/ HasPrefix(request.outputPath, userArtifactsDir \o "/")

\* The executed code writes a file below /user-artifacts, that is, into the
\* host directory bound there.
Container_WriteUser ==
    /\ container = "running"
    /\ \E i \in DOMAIN binds : binds[i].target = "/user-artifacts"
    /\ IF OutputPathIsUserDir
       THEN /\ "direct.png" \notin DOMAIN outputFiles
            /\ outputFiles' = Put(outputFiles, "direct.png", ArtifactBytes)
            /\ outputDir' = "exists"
            /\ UNCHANGED userFiles
       ELSE /\ "direct.png" \notin DOMAIN userFiles
            /\ userFiles' = Put(userFiles, "direct.png", ArtifactBytes)
            /\ UNCHANGED <<outputFiles, outputDir>>
    /\ UNCHANGED <<persistentStore, lastOp, harvested, collectors, deps,
                   userArtifactsDir, binds>>
    /\ UNCHANGED <<request, pc, wpc, resultCh, ret, progress, polls, sent, sendFailures,
                   reply, crashed, container, calls, waitResult, logs, tmpDir,
                   artifactsDir, artifactFiles, artifactsRegistry>>

NextSandbox ==
    \/ NextWorker
    \/ Container_WriteUser

SpecSandbox == InitSandbox /\ [][NextSandbox]_vars

\* The handler went past the check of the output directory.
OutputPathValidated ==
    request.outputPath # "" /\ (pc \in {"notify", "launch", "select", "sleep"} \/ wpc # "idle")

\* The mounts of the created container: the temporary directory at /app, its
\* artifacts subdirectory at /artifacts and, with ARTIFACTS_DIR set, that
\* directory at /user-artifacts; nothing else.
MountsAsSpecified ==
    container # "none"
        => {binds[i] : i \in DOMAIN binds} =
               {Bind(TmpDir, "/app"), Bind(ArtifactsDir, "/artifacts")}
               \cup {Bind(dir, "/user-artifacts") : dir \in {userArtifactsDir} \ {""}}

\* The output directory is not the host side of any mount.
OutputPathNotBound ==
    request.outputPath # ""
        => \A i \in DOMAIN binds : binds[i].host # request.outputPath

\* A step that changes the files of the output directory is the collection
\* step of runInDocker, made after the container has exited.
WrittenByCollectionOnly ==
    outputFiles' # outputFiles
        => /\ calls' = Append(calls, "collect")
           /\ container = "exited"
           /\ waitResult = "status"

-----------------------------------------------------------------------------
(* Requests with and without a progress token. mcp.ProgressToken is compared *)
(* with nil (part_000:30) and with "" (part_000:60), so it is an interface   *)
(* type: the variable progressToken of a request that carries no token is    *)
(* the nil interface, which is not equal to the string "".                   *)

\* progressToken of a request without a token: the zero value of the
\* interface type.
NilToken == "<nil token>"

\* Requests of both tools with valid arguments: no token, the empty string
\* as token, and a token.
TokenRequests ==
    [tool : {"run_code", "run_project"}, token : {NilToken, NoToken, "tok"},
     language : {"python"}, badArg : {"none", "code", "missing"}, outputPath : {""}]

InitToken == InitOf(TokenRequests, {""})

\* The steps of a request of either tool; the poll loop of run_code is
\* followed for MaxFairPolls notifications.
NextToken ==
    \/ NextRunCode
    \/ RunProjectSandbox_Begin
    \/ runProjectInDocker_NewClient
    \/ runProjectInDocker_Notify10
    \/ runProjectInDocker_ImagePull
    \/ runProjectInDocker_MkdirTemp
    \/ runProjectInDocker_MkdirAll
    \/ runProjectInDocker_Notify50
    \/ runProjectInDocker_ContainerCreate
    \/ runProjectInDocker_Notify75
    \/ runProjectInDocker_ContainerStart
    \/ runProjectInDocker_Notify100
    \/ runProjectInDocker_Collect
    \/ RunProjectSandbox_Reply

SpecToken == InitToken /\ [][NextToken]_vars

\* What a handler returns when its initial notification was not delivered.
NotifyFailureMessages ==
    {"Could not send progress to client", "failed to send progress notification"}

\* C35: for a request that carries no progress token nothing is ever handed
\* to the transport, neither a progress nor an error notification, in
\* RunCodeSandbox and in runProjectInDocker; and its result is the one built
\* from the outcome of the run, as for a request with a token: it is never
\* the failure to notify.
C35_NoTokenNoNotifications ==
    request.token = NilToken
        => /\ sent = <<>>
           /\ sendFailures = 0
           /\ reply.kind # "none" => reply.msg \notin NotifyFailureMessages


-----------------------------------------------------------------------------
(* The goroutine of a run_code request under fair scheduling: a goroutine    *)
(* whose send on resultCh can complete is runnable, and the Go scheduler     *)
(* runs it. Nothing is assumed of the backend or of the coordinator.         *)
SpecFairSend ==
    /\ InitRunCode
    /\ [][NextRunCode]_vars
    /\ WF_vars(RunCodeSandbox_Send)

\* C36: the goroutine of a run_code request never blocks on the send of its
\* result. resultCh holds at most one value and is sent to at most once in a
\* request, by the goroutine whose runInDocker has returned, which sends
\* what runInDocker returned exactly once and ends; whenever the goroutine is
\* at the send the send can complete, wherever the coordinator is (at its
\* select, asleep, or gone); and a goroutine whose runInDocker has returned
\* eventually ends.
C36_SendNeverBlocks ==
    /\ [](/\ Len(resultCh) <= 1
          /\ ChannelSends <= 1
          /\ wpc = "exited" => ChannelSends = 1
          /\ wpc = "returned" => /\ resultCh = <<>>
                                 /\ ChannelSends = 0
                                 /\ ENABLED RunCodeSandbox_Send)
    /\ [][resultCh' # resultCh /\ resultCh' # <<>>
             => /\ wpc = "returned"
                /\ wpc' = "exited"
                /\ resultCh' = <<ret>>]_vars
    /\ (wpc = "returned") ~> (wpc = "exited")

\* The goroutine delivered its result while the coordinator was asleep
\* between two polls.
C36_Witness ==
    /\ request.tool = "run_code"
    /\ wpc = "exited"
    /\ resultCh = <<ret>>
    /\ pc = "sleep"


\* C37: in every state reached by collections and purges (and fetches and
\* listings between them) every registry entry names a path at which the
\* durable store holds a file. A collection adds an entry only for a file
\* whose durable write succeeded in that call, the file then holding the
\* bytes read; and after a purge no key maps to the purged path,
\* and the file at that path is gone when os.Remove did not fail.
C37_EntriesPointToFiles ==
    /\ [](\A key \in DOMAIN artifactsRegistry :
              /\ artifactsRegistry[key] \in DOMAIN persistentStore
              /\ persistentStore[artifactsRegistry[key]] # DirMark)
    /\ [][(lastOp'.op = "collect" /\ lastOp'.n # lastOp.n)
             => \A i \in DOMAIN lastOp'.inputs[2] :
                    LET entry == lastOp'.inputs[2][i]
                        key == RegistryKey(lastOp'.inputs[1], entry.name)
                    IN  (/\ key \in DOMAIN artifactsRegistry'
                         /\ key \notin DOMAIN artifactsRegistry)
                            => /\ ~entry.isDir
                               /\ lastOp'.inputs[4] \cap DurableFaults(entry.name) = {}
                               /\ persistentStore'[artifactsRegistry'[key]] = entry.data]_vars
    /\ [][(lastOp'.op = "cleanup" /\ lastOp'.n # lastOp.n)
             => /\ \A key \in DOMAIN artifactsRegistry' :
                        artifactsRegistry'[key] # lastOp'.path
                /\ (/\ lastOp'.faults = {}
                    /\ \E key \in DOMAIN artifactsRegistry :
                           artifactsRegistry[key] = lastOp'.path)
                       => lastOp'.path \notin DOMAIN persistentStore']_vars

\* Two files of a container were collected and one of them was purged: its
\* key and its file are gone, the other entry is left.
C37_Witness ==
    /\ lastOp.op = "cleanup"
    /\ lastOp.faults = {}
    /\ lastOp.path = PersistentPath("c1", "result.png")
    /\ lastOp.path \notin DOMAIN persistentStore
    /\ RegistryKey("c1", "result.png") \notin DOMAIN artifactsRegistry
    /\ RegistryKey("c1", "data.csv") \in DOMAIN artifactsRegistry
    /\ PersistentPath("c1", "data.csv") \in DOMAIN persistentStore


\* C38: CleanupArtifact(path) takes out of the registry the keys whose path
\* is the given path and no other: every other key is in the registry
\* afterwards with the path it had, no key is added, and when no key maps to
\* the path the registry is as before. This does not depend on whether
\* os.Remove succeeded.
C38_CleanupRemovesExactly ==
    [][(lastOp'.op = "cleanup" /\ lastOp'.n # lastOp.n)
          => LET purged == {key \in DOMAIN artifactsRegistry :
                                artifactsRegistry[key] = lastOp'.path}
             IN  /\ DOMAIN artifactsRegistry' = (DOMAIN artifactsRegistry) \ purged
                 /\ \A key \in DOMAIN artifactsRegistry' :
                        artifactsRegistry'[key] = artifactsRegistry[key]
                 /\ purged = {} => artifactsRegistry' = artifactsRegistry]_vars

\* A purge of one file of container c10 whose os.Remove failed: the key is
\* gone, the key of the other file of c10 and a key of c1 are left.
C38_Witness ==
    /\ lastOp.op = "cleanup"
    /\ lastOp.path = PersistentPath("c10", "data.csv")
    /\ lastOp.faults = {Fault("remove", "")}
    /\ lastOp.path \in DOMAIN persistentStore
    /\ RegistryKey("c10", "data.csv") \notin DOMAIN artifactsRegistry
    /\ RegistryKey("c10", "result.png") \in DOMAIN artifactsRegistry
    /\ \E key \in DOMAIN artifactsRegistry : HasPrefix(key, "c1/")

\* A purge of a path no key maps to, with entries in the registry.
C38_WitnessNoKey ==
    /\ lastOp.op = "cleanup"
    /\ lastOp.path = "/tmp/other"
    /\ artifactsRegistry # <<>>

=============================================================================
